---- MODULE Spec2Model ----
(***************************************************************************)
(* A model of rag_evaluator.py, the RAG evaluation engine:                 *)
(*   src/jarvis/skills/engineering-team/senior-prompt-engineer/scripts/    *)
(*   rag_evaluator.py                                                      *)
(*                                                                         *)
(* Numbers.  The program computes with Python floats and reports most      *)
(* scores through round(x, 3).  The model computes the same quantities     *)
(* exactly, as fractions [n |-> numerator, d |-> denominator], and a       *)
(* rounded score is an integer number of thousandths (1.0 is 1000).        *)
(* 1/log2(i+2) is tabulated in units of 10^-5.                             *)
(*                                                                         *)
(* Texts.  A text is a sequence of lexemes: words (maximal runs of word    *)
(* characters), the blank " " and the sentence terminators ".", "!", "?".  *)
(* No two words are adjacent in a text (they would be one word).           *)
(***************************************************************************)
EXTENDS Integers, Sequences, FiniteSets, TLC

VARIABLES
    pc,         \* the position of the run: "<operation>_start", "<operation>_done"
    retrieved,  \* calculate_retrieval_metrics: the ranked retrieved-id list
    relevant,   \* calculate_retrieval_metrics: the relevant-id set
    k,          \* the cutoff K (calculate_retrieval_metrics, evaluate_rag_system)
    metrics,    \* the RetrievalMetrics returned
    text1,      \* calculate_token_overlap / calculate_rouge_l: first text (reference)
    text2,      \* calculate_token_overlap / calculate_rouge_l: second text (candidate)
    overlap,    \* the value calculate_token_overlap(text1, text2) returned
    rouge,      \* the value calculate_rouge_l(text1, text2) returned
    answer,     \* evaluate_answer_faithfulness: the answer text
    q_contexts, \* evaluate_answer_faithfulness: the ordered context texts
    answer_eval, \* the AnswerEvaluation returned
    questions,  \* evaluate_rag_system: the question list
    contexts,   \* evaluate_rag_system: the context pool
    verbose,    \* evaluate_rag_system: the verbose flag
    qi,         \* the number of questions the loop of line 359 has processed
    context_evals,             \* the ContextEvaluations of the last question
    all_context_scores,
    all_faithfulness_scores,
    all_groundedness_scores,
    issues,
    question_details,
    questions_with_context,
    report,     \* the RAGEvaluationReport returned
    support_claim,   \* check_claim_support: the claim
    support_context, \* check_claim_support: the context
    support_result   \* the pair (supported, score) returned

retrievalVars == <<retrieved, relevant, k, metrics>>

pairVars == <<text1, text2, overlap, rouge>>

faithVars == <<answer, q_contexts, answer_eval>>

ragVars == <<questions, contexts, verbose, qi, context_evals, all_context_scores,
             all_faithfulness_scores, all_groundedness_scores, issues,
             question_details, questions_with_context, report>>

supportVars == <<support_claim, support_context, support_result>>

vars == <<pc, retrievalVars, pairVars, faithVars, ragVars, supportVars>>

(***************************************************************************)
(* Bounds of the model.                                                    *)
(***************************************************************************)
MaxRetrieved == 3
MaxK == 3
MaxWords == 3
MaxSentences == 2
MaxContexts == 2
MaxQuestions == 2
MaxPool == 2
MaxCapQuestions == 11
MaxAvgQuestions == 2
MaxSupportWords == 5
MaxFiller == 30

DocIds == {"docA", "docB", "docC"}

NoValue == "None"

\* the value of metrics before calculate_retrieval_metrics has returned
NoMetrics == [precision_at_k |-> 0, recall_at_k |-> 0, mrr |-> 0, ndcg_at_k |-> 0, k |-> 0]

(***************************************************************************)
(* Arithmetic.                                                             *)
(***************************************************************************)
Min2(a, b) == IF a <= b THEN a ELSE b

Max2(a, b) == IF a >= b THEN a ELSE b

\* The n/d a float expression evaluates to, d > 0.
Frac(n, d) == [n |-> n, d |-> d]

FZero == Frac(0, 1)

FOne == Frac(1, 1)

RECURSIVE GCD(_, _)
GCD(a, b) == IF b = 0 THEN a ELSE GCD(b, a % b)

\* the same number in lowest terms
Reduce(x) == LET g == GCD(x.n, x.d) IN Frac(x.n \div g, x.d \div g)

FAdd(x, y) == Reduce(Frac(x.n * y.d + y.n * x.d, x.d * y.d))

FMul(x, y) == Reduce(Frac(x.n * y.n, x.d * y.d))

\* x / y for y > 0
FDiv(x, y) == Reduce(Frac(x.n * y.d, x.d * y.n))

FEq(x, y) == x.n * y.d = y.n * x.d

FLt(x, y) == x.n * y.d < y.n * x.d

FGt(x, y) == x.n * y.d > y.n * x.d

\* round(n/d, 3) in thousandths, n >= 0, d > 0: the nearest thousandth, an
\* exact half going to the even neighbour (Python rounds the double it holds;
\* for a dyadic n/d that is this rule).
Round3(n, d) ==
    LET q == (1000 * n) \div d
        r == (1000 * n) % d
    IN  IF 2 * r > d THEN q + 1
        ELSE IF 2 * r < d THEN q
        ELSE IF q % 2 = 0 THEN q ELSE q + 1

FRound3(x) == Round3(x.n, x.d)

\* round(x, 3) of a double x computed with rounding from operands whose
\* exact result is n/d (a mean of rounded scores, a weighted sum), the
\* values the call can return: the nearest thousandth, and either
\* neighbour of an exact half (the double lies above or below the half).
Round3Set(n, d) ==
    LET q == (1000 * n) \div d
        r == (1000 * n) % d
    IN  IF 2 * r > d THEN {q + 1}
        ELSE IF 2 * r < d THEN {q}
        ELSE {q, q + 1}

\* 1 / math.log2(n) in units of 10^-5, n = i + 2 for the 0-based rank i.
InvLog2(n) ==
    CASE n = 2 -> 100000
      [] n = 3 -> 63093
      [] n = 4 -> 50000
      [] n = 5 -> 43068
      [] n = 6 -> 38685
      [] n = 7 -> 35621
      [] n = 8 -> 33333
      [] OTHER -> 31546

(***************************************************************************)
(* Texts and tokenize                                                      *)
(***************************************************************************)
Blank == " "

Terminators == {".", "!", "?"}

\* The words of the model's texts.
Words == {"Paris", "paris", "france", "the"}

\* str.lower() of a word
lower(w) ==
    CASE w = "Paris"  -> "paris"
      [] w = "France" -> "france"
      [] w = "The"    -> "the"
      [] OTHER        -> w

\* Words of three characters each, all distinct, to fill long contexts.
FillerWords ==
    <<"w01", "w02", "w03", "w04", "w05", "w06", "w07", "w08",
      "w09", "w10", "w11", "w12", "w13", "w14", "w15", "w16",
      "w17", "w18", "w19", "w20", "w21", "w22", "w23", "w24",
      "w25", "w26", "w27", "w28", "w29", "w30", "w31", "w32">>

IsFillerWord(x) == \E i \in DOMAIN FillerWords : FillerWords[i] = x

\* len() of a lexeme, in characters
LexLen(x) ==
    CASE x \in {"Paris", "paris"}   -> 5
      [] x \in {"France", "france"} -> 6
      [] x \in {"The", "the"}       -> 3
      [] x = "city"                  -> 4
      [] x = "population"            -> 10
      [] x \in {"capital", "million"} -> 7
      [] x \in {"is", "ab"}         -> 2
      [] IsFillerWord(x)             -> 3
      [] OTHER                       -> 1

stopwords ==
    {"the", "a", "an", "is", "are", "was", "were", "be", "been",
     "being", "have", "has", "had", "do", "does", "did", "will",
     "would", "could", "should", "may", "might", "must", "shall",
     "can", "to", "of", "in", "for", "on", "with", "at", "by",
     "from", "as", "into", "through", "during", "before", "after",
     "above", "below", "up", "down", "out", "off", "over", "under",
     "again", "further", "then", "once", "here", "there", "when",
     "where", "why", "how", "all", "each", "few", "more", "most",
     "other", "some", "such", "no", "nor", "not", "only", "own",
     "same", "so", "than", "too", "very", "just", "and", "but",
     "if", "or", "because", "until", "while", "it", "this", "that",
     "these", "those", "i", "you", "he", "she", "we", "they"}

\* re.findall(r'\b\w+\b', text): the words of the text, in order
IsWordLexeme(x) == x # Blank /\ x \notin Terminators

KeptToken(t) == t \notin stopwords /\ LexLen(t) > 2

tokenize(text) ==
    LET lowered == [i \in DOMAIN text |-> lower(text[i])]
        tokens  == SelectSeq(lowered, IsWordLexeme)
    IN  SelectSeq(tokens, KeptToken)

\* ' '.join(parts) for a sequence of texts
RECURSIVE JoinBlank(_)
JoinBlank(parts) ==
    IF parts = <<>> THEN <<>>
    ELSE IF Len(parts) = 1 THEN parts[1]
    ELSE parts[1] \o <<Blank>> \o JoinBlank(Tail(parts))

\* set(list)
SetOf(seq) == {seq[i] : i \in DOMAIN seq}

(***************************************************************************)
(* extract_key_terms                                                       *)
(***************************************************************************)
\* the distinct tokens in order of first occurrence (the keys of Counter)
RECURSIVE DistinctInOrder(_)
DistinctInOrder(tokens) ==
    IF tokens = <<>> THEN <<>>
    ELSE LET init == DistinctInOrder(SubSeq(tokens, 1, Len(tokens) - 1))
             last == tokens[Len(tokens)]
         IN  IF last \in SetOf(init) THEN init ELSE Append(init, last)

\* Counter(tokens)[t]
Count(tokens, t) == Cardinality({i \in DOMAIN tokens : tokens[i] = t})

\* The first top_n of the keys sorted by count, largest first, equal counts
\* in order of first occurrence.
RECURSIVE MostCommon(_, _, _)
MostCommon(keys, tokens, top_n) ==
    IF top_n <= 0 \/ keys = <<>> THEN <<>>
    ELSE LET best == CHOOSE i \in DOMAIN keys :
                       /\ \A j \in DOMAIN keys :
                             Count(tokens, keys[j]) <= Count(tokens, keys[i])
                       /\ \A j \in 1..(i - 1) :
                             Count(tokens, keys[j]) < Count(tokens, keys[i])
             rest == SubSeq(keys, 1, best - 1) \o SubSeq(keys, best + 1, Len(keys))
         IN  <<keys[best]>> \o MostCommon(rest, tokens, top_n - 1)

extract_key_terms(text, top_n) ==
    LET tokens == tokenize(text)
    IN  MostCommon(DistinctInOrder(tokens), tokens, top_n)

(***************************************************************************)
(* calculate_token_overlap                                                 *)
(***************************************************************************)
\* Mutant of calculate_token_overlap: the intersection is divided by the
\* first text's token set instead of the union.
calculate_token_overlap_over_first(t1, t2) ==
    LET tokens1 == SetOf(tokenize(t1))
        tokens2 == SetOf(tokenize(t2))
    IN  IF tokens1 = {} \/ tokens2 = {} THEN FZero
        ELSE Frac(Cardinality(tokens1 \cap tokens2), Cardinality(tokens1))

calculate_token_overlap(t1, t2) ==
    LET tokens1 == SetOf(tokenize(t1))
        tokens2 == SetOf(tokenize(t2))
        intersection == tokens1 \cap tokens2
        union == tokens1 \cup tokens2
    IN  IF tokens1 = {} \/ tokens2 = {} THEN FZero
        ELSE IF union # {} THEN Frac(Cardinality(intersection), Cardinality(union))
        ELSE FZero

(***************************************************************************)
(* calculate_rouge_l                                                       *)
(***************************************************************************)
\* Mutant of lcs_table: a mismatch resets the cell instead of carrying the
\* larger neighbour.
lcs_table_reset_on_mismatch(ref, cand) ==
    LET m == Len(ref)
        n == Len(cand)
        dp[i \in 0..m, j \in 0..n] ==
            IF i = 0 \/ j = 0 THEN 0
            ELSE IF ref[i] = cand[j] THEN dp[i - 1, j - 1] + 1
            ELSE 0
    IN  dp

\* The table dp of lines 126-133 for the token sequences ref and cand.
lcs_table(ref, cand) ==
    LET m == Len(ref)
        n == Len(cand)
        dp[i \in 0..m, j \in 0..n] ==
            IF i = 0 \/ j = 0 THEN 0
            ELSE IF ref[i] = cand[j] THEN dp[i - 1, j - 1] + 1
            ELSE Max2(dp[i - 1, j], dp[i, j - 1])
    IN  dp

\* Mutant of rouge_f1: the factor 2 of the harmonic mean is missing.
rouge_f1_without_2(lcs_length, m, n) ==
    LET p == IF n > 0 THEN Frac(lcs_length, n) ELSE FZero
        r == IF m > 0 THEN Frac(lcs_length, m) ELSE FZero
    IN  IF FEq(FAdd(p, r), FZero) THEN FZero
        ELSE FDiv(FMul(p, r), FAdd(p, r))

\* lines 137-144: the F1-like score of an LCS length
rouge_f1(lcs_length, m, n) ==
    LET p == IF n > 0 THEN Frac(lcs_length, n) ELSE FZero
        r == IF m > 0 THEN Frac(lcs_length, m) ELSE FZero
    IN  IF FEq(FAdd(p, r), FZero) THEN FZero
        ELSE FDiv(FMul(FMul(Frac(2, 1), p), r), FAdd(p, r))

calculate_rouge_l(reference, candidate) ==
    LET ref_tokens  == tokenize(reference)
        cand_tokens == tokenize(candidate)
        m == Len(ref_tokens)
        n == Len(cand_tokens)
    IN  IF ref_tokens = <<>> \/ cand_tokens = <<>> THEN FZero
        ELSE rouge_f1(lcs_table(ref_tokens, cand_tokens)[m, n], m, n)

(***************************************************************************)
(* evaluate_context_relevance                                              *)
(***************************************************************************)
QuestionTopN == 15
ContextTopN == 30

\* list(a_set): the elements in some order (Python fixes none for a set of
\* strings; it changes with the hash seed of the process)
RECURSIVE Orderings(_)
Orderings(S) ==
    IF S = {} THEN {<<>>}
    ELSE UNION {{<<x>> \o rest : rest \in Orderings(S \ {x})} : x \in S}

\* Mutant of relevance: both parts weighted 0.6.
relevance_overweighted(question, context) ==
    LET question_terms == SetOf(extract_key_terms(question, QuestionTopN))
        context_terms  == SetOf(extract_key_terms(context, ContextTopN))
        covered        == question_terms \cap context_terms
        term_coverage  == IF question_terms # {}
                          THEN Frac(Cardinality(covered), Cardinality(question_terms))
                          ELSE FZero
        token_overlap  == calculate_token_overlap(question, context)
    IN  FAdd(FMul(Frac(6, 10), term_coverage), FMul(Frac(6, 10), token_overlap))

\* lines 149-160: the relevance of a context before rounding
relevance(question, context) ==
    LET question_terms == SetOf(extract_key_terms(question, QuestionTopN))
        context_terms  == SetOf(extract_key_terms(context, ContextTopN))
        covered        == question_terms \cap context_terms
        term_coverage  == IF question_terms # {}
                          THEN Frac(Cardinality(covered), Cardinality(question_terms))
                          ELSE FZero
        token_overlap  == calculate_token_overlap(question, context)
    IN  FAdd(FMul(Frac(6, 10), term_coverage), FMul(Frac(4, 10), token_overlap))

\* Mutant of evaluate_context_relevance: the missing terms are taken from
\* the context's side of the difference.
evaluate_context_relevance_missing_swapped(question, context, context_id) ==
    LET question_terms == SetOf(extract_key_terms(question, QuestionTopN))
        context_terms  == SetOf(extract_key_terms(context, ContextTopN))
        covered        == question_terms \cap context_terms
        missing        == context_terms \ question_terms
        rel            == relevance(question, context)
    IN  { [context_id        |-> context_id,
           relevance_score   |-> r,
           token_overlap     |-> FRound3(calculate_token_overlap(question, context)),
           key_terms_covered |-> c,
           missing_terms     |-> ms] :
           r \in Round3Set(rel.n, rel.d), c \in Orderings(covered), ms \in Orderings(missing) }

\* The ContextEvaluations the call can return.  They differ in the order of
\* the two term lists, and in relevance_score when the exact relevance lies
\* halfway between two thousandths: the double of line 160 is a sum of two
\* rounded products and lies on either side of it (0.6 * 0 + 0.4 * 1/32 is
\* held as 0.012500000000000002 and reported as 0.013).
evaluate_context_relevance(question, context, context_id) ==
    LET question_terms == SetOf(extract_key_terms(question, QuestionTopN))
        context_terms  == SetOf(extract_key_terms(context, ContextTopN))
        covered        == question_terms \cap context_terms
        missing        == question_terms \ context_terms
        rel            == relevance(question, context)
    IN  { [context_id        |-> context_id,
           relevance_score   |-> r,
           token_overlap     |-> FRound3(calculate_token_overlap(question, context)),
           key_terms_covered |-> c,
           missing_terms     |-> ms] :
           r \in Round3Set(rel.n, rel.d), c \in Orderings(covered), ms \in Orderings(missing) }

(***************************************************************************)
(* extract_claims                                                          *)
(***************************************************************************)
\* len(text), in characters
RECURSIVE CharLen(_)
CharLen(text) == IF text = <<>> THEN 0 ELSE LexLen(Head(text)) + CharLen(Tail(text))

\* re.split(r'[.!?]+', text) from lexeme i on; cur is the fragment being read
RECURSIVE SplitFrom(_, _, _)
SplitFrom(text, i, cur) ==
    IF i > Len(text) THEN <<cur>>
    ELSE IF text[i] \in Terminators
         THEN IF i > 1 /\ text[i - 1] \in Terminators
              THEN SplitFrom(text, i + 1, cur)
              ELSE <<cur>> \o SplitFrom(text, i + 1, <<>>)
    ELSE SplitFrom(text, i + 1, Append(cur, text[i]))

RECURSIVE lstrip(_)
lstrip(text) ==
    IF text # <<>> /\ Head(text) = Blank THEN lstrip(Tail(text)) ELSE text

RECURSIVE rstrip(_)
rstrip(text) ==
    IF text # <<>> /\ text[Len(text)] = Blank
    THEN rstrip(SubSeq(text, 1, Len(text) - 1))
    ELSE text

\* str.strip()
strip(text) == rstrip(lstrip(text))

\* the minimum length filter of line 179
LongEnough(sentence) == CharLen(sentence) > 10

extract_claims(ans) ==
    LET sentences == SplitFrom(ans, 1, <<>>)
        stripped  == [i \in DOMAIN sentences |-> strip(sentences[i])]
    IN  SelectSeq(stripped, LongEnough)

(***************************************************************************)
(* check_claim_support                                                     *)
(***************************************************************************)
\* lines 187-201: the support score, 1.0 for a claim without tokens
support_score(claim, context) ==
    LET claim_terms   == SetOf(tokenize(claim))
        context_terms == SetOf(tokenize(context))
        support_ratio == Frac(Cardinality(claim_terms \cap context_terms),
                              Cardinality(claim_terms))
        rouge_score   == calculate_rouge_l(context, claim)
    IN  IF claim_terms = {} THEN FOne
        ELSE FAdd(FMul(Frac(1, 2), support_ratio), FMul(Frac(1, 2), rouge_score))

\* score > 0.3 on the double that holds the score: the values the test can
\* have.  A score that is not 3/10 is far from it and compares as it does
\* exactly; a score of exactly 3/10 is held in a double that is 0.3 or one
\* step above it, as the two halves round (0.5 * 0.4 + 0.5 * 0.2 gives
\* 0.30000000000000004, 0.5 * 0.5 + 0.5 * 0.1 gives 0.3).
exceeds_threshold(score) ==
    IF FEq(score, Frac(3, 10)) THEN BOOLEAN ELSE {FGt(score, Frac(3, 10))}

\* Mutant of check_claim_support: a claim without tokens is unsupported.
check_claim_support_empty_unsupported(claim, context) ==
    IF tokenize(claim) = <<>> THEN {[supported |-> FALSE, score |-> FZero]}
    ELSE {[supported |-> b, score |-> support_score(claim, context)] :
            b \in exceeds_threshold(support_score(claim, context))}

\* The pairs (supported, score) the call can return.
check_claim_support(claim, context) ==
    LET score == support_score(claim, context)
    IN  IF tokenize(claim) = <<>> THEN {[supported |-> TRUE, score |-> FOne]}
        ELSE {[supported |-> b, score |-> score] : b \in exceeds_threshold(score)}

(***************************************************************************)
(* evaluate_answer_faithfulness                                            *)
(***************************************************************************)
\* text[:100]: the longest prefix of whole lexemes within 100 characters
RECURSIVE First100(_)
First100(text) ==
    IF CharLen(text) <= 100 THEN text ELSE First100(SubSeq(text, 1, Len(text) - 1))

\* claim[:100] + '...' if len(claim) > 100 else claim
ClaimLabel(claim) ==
    IF CharLen(claim) > 100 THEN First100(claim) \o <<".", ".", ".">> ELSE claim

\* sum(seq) of a sequence of integers
RECURSIVE SumSeq(_)
SumSeq(seq) == IF seq = <<>> THEN 0 ELSE Head(seq) + SumSeq(Tail(seq))

\* The integers the double support_score is computed from (lines 195-201):
\* two calls with the same ones hold the same double.
support_inputs(claim, context) ==
    LET claim_terms   == SetOf(tokenize(claim))
        context_terms == SetOf(tokenize(context))
        ref_tokens    == tokenize(context)
        cand_tokens   == tokenize(claim)
    IN  <<Cardinality(claim_terms \cap context_terms), Cardinality(claim_terms),
          lcs_table(ref_tokens, cand_tokens)[Len(ref_tokens), Len(cand_tokens)],
          Len(ref_tokens), Len(cand_tokens)>>

\* The results of check_claim_support(claim, context) within one run, each
\* with the outcomes of the comparisons made on a score of exactly 3/10 so
\* far (ties maps support_inputs to the outcome): the comparison of a double
\* the run has compared before has the outcome it had.
SupportWithin(claim, context, ties) ==
    LET results == check_claim_support(claim, context)
    IN  IF Cardinality(results) = 1 THEN {[result |-> r, ties |-> ties] : r \in results}
        ELSE LET key == support_inputs(claim, context)
             IN  IF key \in DOMAIN ties
                 THEN {[result |-> r, ties |-> ties] :
                         r \in {x \in results : x.supported = ties[key]}}
                 ELSE {[result |-> r, ties |-> ties @@ (key :> r.supported)] :
                         r \in results}

\* The loop of lines 231-236 for one claim, from context i (0-based) on:
\* acc.attribution maps each contributing context to its rounded score
\* (the keys 'context_<i>' of claim_eval), acc.context_used is the list,
\* acc.ties the outcomes of the comparisons at 3/10 so far.
\* The set of the results the loop can have.  The test ctx_score > 0.3 of
\* line 233 is made on the double the call has just compared with 0.3
\* itself, so it is the flag the call returned (a claim without tokens has
\* score 1.0 and the flag set).
RECURSIVE TrackContexts(_, _, _, _)
TrackContexts(claim, ctxs, i, acc) ==
    IF i >= Len(ctxs) THEN {acc}
    ELSE UNION {
           IF s.result.supported
           THEN TrackContexts(claim, ctxs, i + 1,
                  [attribution  |-> acc.attribution @@ (i :> FRound3(s.result.score)),
                   context_used |-> IF i \in SetOf(acc.context_used)
                                    THEN acc.context_used
                                    ELSE Append(acc.context_used, i),
                   ties         |-> s.ties])
           ELSE TrackContexts(claim, ctxs, i + 1, [acc EXCEPT !.ties = s.ties]) :
           s \in SupportWithin(claim, ctxs[i + 1], acc.ties) }

\* Mutant of combined_context: only the first context is the body.
combined_context_first_only(ctxs) == IF ctxs = <<>> THEN <<>> ELSE ctxs[1]

\* ' '.join(contexts)
combined_context(ctxs) == JoinBlank(ctxs)

\* The loop of lines 221-243 from claim j (1-based) on: the set of the
\* results it can have.
RECURSIVE EvalClaims(_, _, _, _)
EvalClaims(claims, ctxs, j, acc) ==
    IF j > Len(claims) THEN {acc}
    ELSE UNION { UNION {
           LET claim      == claims[j]
               support    == s.result
               claim_eval == [claim     |-> ClaimLabel(claim),
                              supported |-> support.supported,
                              score     |-> FRound3(support.score),
                              context   |-> tracked.attribution]
           IN  EvalClaims(claims, ctxs, j + 1,
                 [claim_evaluations |-> Append(acc.claim_evaluations, claim_eval),
                  supported_claims  |-> IF support.supported
                                        THEN acc.supported_claims + 1
                                        ELSE acc.supported_claims,
                  unsupported       |-> IF support.supported
                                        THEN acc.unsupported
                                        ELSE Append(acc.unsupported, First100(claim)),
                  context_used      |-> tracked.context_used,
                  ties              |-> tracked.ties]) :
           tracked \in TrackContexts(claims[j], ctxs, 0,
                         [attribution |-> <<>>, context_used |-> acc.context_used,
                          ties |-> s.ties]) } :
           s \in SupportWithin(claims[j], combined_context(ctxs), acc.ties) }

\* lines 246-258: the AnswerEvaluations a finished loop can give (they
\* differ only in the rounding of an exact half in groundedness_score)
answer_evaluations(question_id, claims, done) ==
    LET scores == [i \in DOMAIN done.claim_evaluations |-> done.claim_evaluations[i].score]
        faithfulness == IF claims # <<>> THEN Frac(done.supported_claims, Len(claims))
                        ELSE FOne
        avg_scores   == IF done.claim_evaluations # <<>>
                        THEN Round3Set(SumSeq(scores), 1000 * Len(done.claim_evaluations))
                        ELSE {1000}
    IN  { [question_id        |-> question_id,
           faithfulness_score |-> FRound3(faithfulness),
           groundedness_score |-> g,
           claims             |-> done.claim_evaluations,
           unsupported_claims |-> done.unsupported,
           context_used       |-> done.context_used] : g \in avg_scores }

\* The AnswerEvaluations the call can return.
evaluate_answer_faithfulness(ans, ctxs, question_id) ==
    LET claims == extract_claims(ans)
    IN  UNION { answer_evaluations(question_id, claims, done) :
                  done \in EvalClaims(claims, ctxs, 1,
                             [claim_evaluations |-> <<>>, supported_claims |-> 0,
                              unsupported |-> <<>>, context_used |-> <<>>,
                              ties |-> <<>>]) }

(***************************************************************************)
(* generate_recommendations                                                *)
(***************************************************************************)
\* A recommendation is modelled by the rule that emitted it; the text of
\* the message (with the score printed to two decimals) is left out.
\* dict.get(key, default): a dict is a function from the keys it holds
Get(dict, key, default) == IF key \in DOMAIN dict THEN dict[key] ELSE default

\* Mutant of generate_recommendations: the relevance rule fires at the
\* target itself.
generate_recommendations_at_target(rep) ==
    LET recommendations ==
            (IF rep.avg_context_relevance <= 800 THEN <<"context_relevance">> ELSE <<>>)
         \o (IF rep.avg_faithfulness < 950 THEN <<"faithfulness">> ELSE <<>>)
         \o (IF rep.avg_groundedness < 850 THEN <<"groundedness">> ELSE <<>>)
         \o (IF rep.coverage < 900 THEN <<"coverage">> ELSE <<>>)
         \o (IF Get(rep.retrieval_metrics, "precision_at_k", 0) < 700
             THEN <<"retrieval_precision">> ELSE <<>>)
    IN  IF recommendations = <<>> THEN <<"all_metrics_meet_targets">>
        ELSE recommendations

generate_recommendations(rep) ==
    LET recommendations ==
            (IF rep.avg_context_relevance < 800 THEN <<"context_relevance">> ELSE <<>>)
         \o (IF rep.avg_faithfulness < 950 THEN <<"faithfulness">> ELSE <<>>)
         \o (IF rep.avg_groundedness < 850 THEN <<"groundedness">> ELSE <<>>)
         \o (IF rep.coverage < 900 THEN <<"coverage">> ELSE <<>>)
         \o (IF Get(rep.retrieval_metrics, "precision_at_k", 0) < 700
             THEN <<"retrieval_precision">> ELSE <<>>)
    IN  IF recommendations = <<>> THEN <<"all_metrics_meet_targets">>
        ELSE recommendations

(***************************************************************************)
(* evaluate_rag_system                                                     *)
(***************************************************************************)
\* An entry of a list that is not a dict (a string, a number, a list) is
\* modelled by a record with the one field not_a_dict; it has no get().
NotADict == [not_a_dict |-> "str"]

IsDict(entry) == "not_a_dict" \notin DOMAIN entry

\* str(i) of a list index
Str(i) ==
    CASE i = 0 -> "0"
      [] i = 1 -> "1"
      [] i = 2 -> "2"
      [] i = 3 -> "3"
      [] OTHER -> "4"

\* list.index(x): the 0-based position of the first element equal to x
IndexOf(list, x) ==
    (CHOOSE i \in DOMAIN list :
        list[i] = x /\ \A j \in 1..(i - 1) : list[j] # x) - 1

\* seq[:n], n >= 0
Prefix(seq, n) == SubSeq(seq, 1, Min2(n, Len(seq)))

\* f"ctx_{i}"
CtxId(i) == <<"ctx", i>>

question_of(q_data) == Get(q_data, "question", Get(q_data, "query", <<>>))

\* Mutant of question_id_of: the id is always the list index.
question_id_of_by_position(qs, q_data) == Str(IndexOf(qs, q_data))

question_id_of(qs, q_data) == Get(q_data, "id", Str(IndexOf(qs, q_data)))

answer_of(q_data) == Get(q_data, "answer", Get(q_data, "response", <<>>))

content_of(ctx) == Get(ctx, "content", Get(ctx, "text", <<>>))

\* the test of line 368
IsLinkedTo(ctx, question_id) ==
    \/ Get(ctx, "question_id", NoValue) = question_id
    \/ Get(ctx, "query_id", NoValue) = question_id

\* lines 366-369: the contents of the contexts linked to the question
RECURSIVE LinkedContents(_, _)
LinkedContents(ctxs, question_id) ==
    IF ctxs = <<>> THEN <<>>
    ELSE (IF IsLinkedTo(Head(ctxs), question_id) THEN <<content_of(Head(ctxs))>> ELSE <<>>)
         \o LinkedContents(Tail(ctxs), question_id)

\* Mutant of ResolveContexts: the first K of the pool are added to the
\* linked contexts.
ResolveContexts_with_pool(ctxs, question_id, kk) ==
    LinkedContents(ctxs, question_id)
        \o [i \in DOMAIN Prefix(ctxs, kk) |-> content_of(Prefix(ctxs, kk)[i])]

\* Mutant of ResolveContexts: the linked contexts are cut to the first K.
ResolveContexts_linked_first_k(ctxs, question_id, kk) ==
    LET linked == LinkedContents(ctxs, question_id)
    IN  IF linked = <<>>
        THEN [i \in DOMAIN Prefix(ctxs, kk) |-> content_of(Prefix(ctxs, kk)[i])]
        ELSE Prefix(linked, kk)

\* Mutant of ResolveContexts: the fallback stops one context short of K.
ResolveContexts_fallback_short(ctxs, question_id, kk) ==
    LET linked == LinkedContents(ctxs, question_id)
    IN  IF linked = <<>>
        THEN [i \in DOMAIN Prefix(ctxs, kk - 1) |-> content_of(Prefix(ctxs, kk - 1)[i])]
        ELSE linked

\* Mutant of ResolveContexts: no fallback to the pool.
ResolveContexts_without_fallback(ctxs, question_id, kk) ==
    LinkedContents(ctxs, question_id)

\* lines 366-374: the q_contexts of a question
ResolveContexts(ctxs, question_id, kk) ==
    LET linked == LinkedContents(ctxs, question_id)
    IN  IF linked = <<>>
        THEN [i \in DOMAIN Prefix(ctxs, kk) |-> content_of(Prefix(ctxs, kk)[i])]
        ELSE linked

\* lines 380-383: the lists context_evals the loop can build over the
\* contexts evaluated, from the 0-based position i on
RECURSIVE ContextEvalLists(_, _, _)
ContextEvalLists(question, evaluated, i) ==
    IF i >= Len(evaluated) THEN {<<>>}
    ELSE {<<e>> \o rest :
            e \in evaluate_context_relevance(question, evaluated[i + 1], CtxId(i)),
            rest \in ContextEvalLists(question, evaluated, i + 1)}

RelevanceScores(evals) == [i \in DOMAIN evals |-> evals[i].relevance_score]

IsLowRelevance(e) == e.relevance_score < 500

\* Mutant of UnsupportedIssue: every unsupported claim is carried.
UnsupportedIssue_uncapped(question_id, ans_eval) ==
    IF ans_eval.unsupported_claims # <<>>
    THEN << [type |-> "unsupported_claim", question_id |-> question_id,
             claims |-> ans_eval.unsupported_claims] >>
    ELSE <<>>

\* lines 393-398
UnsupportedIssue(question_id, ans_eval) ==
    IF ans_eval.unsupported_claims # <<>>
    THEN << [type |-> "unsupported_claim", question_id |-> question_id,
             claims |-> Prefix(ans_eval.unsupported_claims, 3)] >>
    ELSE <<>>

\* lines 401-407
LowRelevanceIssue(question_id, evals) ==
    LET low_relevance == SelectSeq(evals, IsLowRelevance)
    IN  IF low_relevance # <<>>
        THEN << [type |-> "low_relevance", question_id |-> question_id,
                 contexts |-> [i \in DOMAIN low_relevance |-> low_relevance[i].context_id]] >>
        ELSE <<>>

\* seq[-1] if seq else None
LastOrNone(seq) == IF seq # <<>> THEN seq[Len(seq)] ELSE NoValue

\* Mutant of AverageRounded: the sum is divided by the number of questions.
AverageRounded_over_questions(scores) ==
    IF questions # <<>> THEN Round3Set(SumSeq(scores), 1000 * Len(questions)) ELSE {0}

\* sum(scores) / len(scores) if scores else 0, then round(.., 3): the values
\* it can take
AverageRounded(scores) ==
    IF scores # <<>> THEN Round3Set(SumSeq(scores), 1000 * Len(scores)) ELSE {0}

IsHighRelevance(sc) == sc > 500

\* line 421: questions_with_context / len(questions) if questions else 0
coverage_of(with_context, qs) ==
    IF qs # <<>> THEN Frac(with_context, Len(qs)) ELSE FZero

IssueCap == 20

\* Mutant of capped_issues: the last IssueCap issues are kept.
capped_issues_latest(iss) ==
    SubSeq(iss, Max2(1, Len(iss) - IssueCap + 1), Len(iss))

\* line 438: issues[:20]
capped_issues(iss) == Prefix(iss, IssueCap)

\* lines 424-429
retrieval_metrics_of(scores, coverage, kk) ==
    [ precision_at_k   |-> IF scores # <<>>
                           THEN Round3(Len(SelectSeq(scores, IsHighRelevance)), Len(scores))
                           ELSE 0,
      estimated_recall |-> FRound3(coverage),
      k                |-> kk ]

\* lines 431-443: the report built from the three averages as rounded and
\* the accumulators, with its recommendations
report_with(avg_context_relevance, avg_faithfulness, avg_groundedness,
            qs, scores, with_context, iss, details, kk, vb) ==
    LET coverage == coverage_of(with_context, qs)
        built == [total_questions       |-> Len(qs),
                  avg_context_relevance |-> avg_context_relevance,
                  avg_faithfulness      |-> avg_faithfulness,
                  avg_groundedness      |-> avg_groundedness,
                  retrieval_metrics     |-> retrieval_metrics_of(scores, coverage, kk),
                  coverage              |-> FRound3(coverage),
                  issues                |-> capped_issues(iss),
                  recommendations       |-> <<>>,
                  question_details      |-> IF vb THEN details ELSE <<>>]
    IN  [built EXCEPT !.recommendations = generate_recommendations(built)]

\* lines 417-445: the reports the accumulators can give
build_reports(qs, scores, faiths, grounds, with_context, iss, details, kk, vb) ==
    { report_with(avg_context_relevance, avg_faithfulness, avg_groundedness,
                  qs, scores, with_context, iss, details, kk, vb) :
        avg_context_relevance \in AverageRounded(scores),
        avg_faithfulness \in AverageRounded(faiths),
        avg_groundedness \in AverageRounded(grounds) }

(***************************************************************************)
(* calculate_retrieval_metrics                                             *)
(***************************************************************************)
\* retrieved[:k], k >= 0
retrieved_k(ret, kk) == SubSeq(ret, 1, Min2(kk, Len(ret)))

\* sum(1 for doc in retrieved_k if doc in relevant): one per position
relevant_in_k(ret, rel, kk) ==
    Cardinality({i \in DOMAIN retrieved_k(ret, kk) : retrieved_k(ret, kk)[i] \in rel})

precision(ret, rel, kk) ==
    IF kk > 0 THEN Frac(relevant_in_k(ret, rel, kk), kk) ELSE FZero

recall(ret, rel, kk) ==
    IF rel # {} THEN Frac(relevant_in_k(ret, rel, kk), Cardinality(rel)) ELSE FZero

\* The loop of lines 278-281 from position i (1-based) on.
RECURSIVE MrrFrom(_, _, _)
MrrFrom(ret, rel, i) ==
    IF i > Len(ret) THEN FZero
    ELSE IF ret[i] \in rel THEN Frac(1, i)
    ELSE MrrFrom(ret, rel, i + 1)

mrr(ret, rel) == MrrFrom(ret, rel, 1)

\* The loop of lines 285-287 over the sequence rk from position i on, in 10^-5.
RECURSIVE DcgFrom(_, _, _)
DcgFrom(rk, rel, i) ==
    IF i > Len(rk) THEN 0
    ELSE (IF rk[i] \in rel THEN InvLog2(i + 1) ELSE 0) + DcgFrom(rk, rel, i + 1)

dcg(ret, rel, kk) == DcgFrom(retrieved_k(ret, kk), rel, 1)

\* sum(1 / log2(i + 2) for i in range(n)), in 10^-5
RECURSIVE IdealSum(_)
IdealSum(n) == IF n <= 0 THEN 0 ELSE IdealSum(n - 1) + InvLog2(n + 1)

\* Mutant of idcg: the ideal ranking is not cut at K.
idcg_ignoring_k(rel, kk) == IdealSum(Cardinality(rel))

idcg(rel, kk) == IdealSum(Min2(Cardinality(rel), kk))

ndcg(ret, rel, kk) ==
    IF idcg(rel, kk) > 0 THEN Frac(dcg(ret, rel, kk), idcg(rel, kk)) ELSE FZero

\* Mutant of calculate_retrieval_metrics: the reciprocal rank looks only at
\* the first K retrieved ids.
calculate_retrieval_metrics_mrr_in_k(ret, rel, kk) ==
    [ precision_at_k |-> FRound3(precision(ret, rel, kk)),
      recall_at_k    |-> FRound3(recall(ret, rel, kk)),
      mrr            |-> FRound3(mrr(retrieved_k(ret, kk), rel)),
      ndcg_at_k      |-> FRound3(ndcg(ret, rel, kk)),
      k              |-> kk ]

calculate_retrieval_metrics(ret, rel, kk) ==
    [ precision_at_k |-> FRound3(precision(ret, rel, kk)),
      recall_at_k    |-> FRound3(recall(ret, rel, kk)),
      mrr            |-> FRound3(mrr(ret, rel)),
      ndcg_at_k      |-> FRound3(ndcg(ret, rel, kk)),
      k              |-> kk ]

(***************************************************************************)
(* The retrieval-metrics specification: any ranked list (ids may repeat),  *)
(* any relevant set, any cutoff; one call.                                 *)
(***************************************************************************)
RECURSIVE SeqsUpTo(_, _)
SeqsUpTo(S, n) ==
    IF n = 0 THEN {<<>>}
    ELSE LET shorter == SeqsUpTo(S, n - 1)
         IN  shorter \cup {Append(s, x) : s \in {t \in shorter : Len(t) = n - 1}, x \in S}

\* The variables of the operations a specification does not run.
IdleRetrieval ==
    /\ retrieved = <<>>
    /\ relevant = {}
    /\ k = 0
    /\ metrics = NoMetrics

IdlePair ==
    /\ text1 = <<>>
    /\ text2 = <<>>
    /\ overlap = FZero
    /\ rouge = FZero

\* the value of answer_eval before evaluate_answer_faithfulness has returned
NoAnswerEval ==
    [question_id |-> "", faithfulness_score |-> 0, groundedness_score |-> 0,
     claims |-> <<>>, unsupported_claims |-> <<>>, context_used |-> <<>>]

\* the value of support_result before check_claim_support has returned
NoSupport == [supported |-> FALSE, score |-> FZero]

IdleSupport ==
    /\ support_claim = <<>>
    /\ support_context = <<>>
    /\ support_result = NoSupport

IdleFaith ==
    /\ answer = <<>>
    /\ q_contexts = <<>>
    /\ answer_eval = NoAnswerEval

\* the value of report before evaluate_rag_system has returned
NoReport ==
    [total_questions |-> 0, avg_context_relevance |-> 0, avg_faithfulness |-> 0,
     avg_groundedness |-> 0,
     retrieval_metrics |-> [precision_at_k |-> 0, estimated_recall |-> 0, k |-> 0],
     coverage |-> 0, issues |-> <<>>, recommendations |-> <<>>,
     question_details |-> <<>>]

IdleRag ==
    /\ questions = <<>>
    /\ contexts = <<>>
    /\ verbose = FALSE
    /\ qi = 0
    /\ context_evals = <<>>
    /\ all_context_scores = <<>>
    /\ all_faithfulness_scores = <<>>
    /\ all_groundedness_scores = <<>>
    /\ issues = <<>>
    /\ question_details = <<>>
    /\ questions_with_context = 0
    /\ report = NoReport

InitRetrieval ==
    /\ pc = "metrics_start"
    /\ retrieved \in SeqsUpTo(DocIds, MaxRetrieved)
    /\ relevant \in SUBSET DocIds
    /\ k \in 0..MaxK
    /\ metrics = NoMetrics
    /\ IdlePair
    /\ IdleFaith
    /\ IdleSupport
    /\ IdleRag

CalcRetrievalMetrics ==
    /\ pc = "metrics_start"
    /\ metrics' = calculate_retrieval_metrics(retrieved, relevant, k)
    /\ pc' = "metrics_done"
    /\ UNCHANGED <<retrieved, relevant, k, pairVars, faithVars, ragVars, supportVars>>

NextRetrieval == CalcRetrievalMetrics

SpecRetrieval == InitRetrieval /\ [][NextRetrieval]_vars

(***************************************************************************)
(* The similarity specification: any two texts of up to MaxWords words,    *)
(* scored by calculate_token_overlap and then by calculate_rouge_l.        *)
(***************************************************************************)
\* the texts of up to n words of W, one blank between two words
TextsOver(W, n) == {JoinBlank([i \in DOMAIN ws |-> <<ws[i]>>]) : ws \in SeqsUpTo(W, n)}

InitPair ==
    /\ pc = "pair_start"
    /\ text1 \in TextsOver(Words, MaxWords)
    /\ text2 \in TextsOver(Words, MaxWords)
    /\ overlap = FZero
    /\ rouge = FZero
    /\ IdleRetrieval
    /\ IdleFaith
    /\ IdleSupport
    /\ IdleRag

CalcTokenOverlap ==
    /\ pc = "pair_start"
    /\ overlap' = calculate_token_overlap(text1, text2)
    /\ pc' = "pair_overlap"
    /\ UNCHANGED <<text1, text2, rouge, retrievalVars, faithVars, ragVars, supportVars>>

CalcRougeL ==
    /\ pc = "pair_overlap"
    /\ rouge' = calculate_rouge_l(text1, text2)
    /\ pc' = "pair_done"
    /\ UNCHANGED <<text1, text2, overlap, retrievalVars, faithVars, ragVars, supportVars>>

NextPair == CalcTokenOverlap \/ CalcRougeL

SpecPair == InitPair /\ [][NextPair]_vars

(***************************************************************************)
(* The faithfulness specification: one call of                             *)
(* evaluate_answer_faithfulness on an answer of up to MaxSentences         *)
(* sentences and up to MaxContexts contexts.                               *)
(***************************************************************************)
\* The sentences answers are made of, each with its terminators:
\* "the the the." has 11 characters and no token, "france the." has 10
\* characters, "the city city?" shares no token with ContextTexts but "city".
AnswerSentences ==
    { <<"the", " ", "the", " ", "the", ".">>,
      <<"paris", " ", "france", "!", "?">>,
      <<"paris", " ", "paris", ".">>,
      <<"france", " ", "the", ".">>,
      <<"the", " ", "city", " ", "city", "?">> }

ContextTexts ==
    { <<>>,
      <<"Paris">>,
      <<"france", " ", "Paris">>,
      <<"the", " ", "population">> }

Answers == {JoinBlank(ss) : ss \in SeqsUpTo(AnswerSentences, MaxSentences)}

InitFaith ==
    /\ pc = "faith_start"
    /\ answer \in Answers
    /\ q_contexts \in SeqsUpTo(ContextTexts, MaxContexts)
    /\ answer_eval = NoAnswerEval
    /\ IdleRetrieval
    /\ IdlePair
    /\ IdleRag
    /\ IdleSupport

EvaluateAnswerFaithfulness ==
    /\ pc = "faith_start"
    /\ answer_eval' \in evaluate_answer_faithfulness(answer, q_contexts, "q1")
    /\ pc' = "faith_done"
    /\ UNCHANGED <<answer, q_contexts, retrievalVars, pairVars, ragVars, supportVars>>

NextFaith == EvaluateAnswerFaithfulness

SpecFaith == InitFaith /\ [][NextFaith]_vars

(***************************************************************************)
(* The specification of evaluate_rag_system: up to MaxQuestions questions, *)
(* a pool of up to MaxPool contexts, K in 0..MaxK, verbose or not.  One    *)
(* step per question of the loop of line 359, then the report.             *)
(***************************************************************************)
\* The question records of the model.  A record holds only the keys it
\* gives: the second has no id (it gets its list index) and no answer, the
\* third uses the keys query and response, the fourth has no question text.
QuestionRecords ==
    { [id |-> "q1", question |-> <<"paris", " ", "france", "?">>,
       answer |-> <<"paris", " ", "france", "!", "?">>],
      [question |-> <<"the", " ", "Paris">>],
      [id |-> "q2", query |-> <<"Paris", " ", "population">>,
       response |-> <<"the", " ", "city", " ", "city", "?", " ",
                      "paris", " ", "paris", ".">>],
      [id |-> "q3", answer |-> <<"the", " ", "the", " ", "the", ".">>] }

\* The context records of the model: linked to q1, unlinked, linked (by
\* query_id) to the index-made id "0", linked to q2 with an empty content.
ContextRecords ==
    { [question_id |-> "q1", content |-> <<"Paris", " ", "france">>],
      [content |-> <<"the", " ", "population">>],
      [query_id |-> "0", text |-> <<"france", " ", "Paris", " ", "city">>],
      [question_id |-> "q2", content |-> <<>>] }

Init ==
    /\ pc = "rag_loop"
    /\ questions \in SeqsUpTo(QuestionRecords, MaxQuestions)
    /\ contexts \in SeqsUpTo(ContextRecords, MaxPool)
    /\ k \in 0..MaxK
    /\ verbose \in BOOLEAN
    /\ qi = 0
    /\ context_evals = <<>>
    /\ all_context_scores = <<>>
    /\ all_faithfulness_scores = <<>>
    /\ all_groundedness_scores = <<>>
    /\ issues = <<>>
    /\ question_details = <<>>
    /\ questions_with_context = 0
    /\ report = NoReport
    /\ retrieved = <<>>
    /\ relevant = {}
    /\ metrics = NoMetrics
    /\ IdlePair
    /\ IdleFaith
    /\ IdleSupport

\* One iteration of the loop of lines 359-415, for questions[qi + 1].
EvalQuestion ==
    /\ pc = "rag_loop"
    /\ qi < Len(questions)
    /\ IsDict(questions[qi + 1])
    /\ \A j \in DOMAIN contexts : IsDict(contexts[j])
    /\ LET q_data      == questions[qi + 1]
           question    == question_of(q_data)
           question_id == question_id_of(questions, q_data)
           ans         == answer_of(q_data)
           resolved    == ResolveContexts(contexts, question_id, k)
           evaluated   == Prefix(resolved, k)
       IN  /\ q_contexts' = resolved
           /\ answer' = ans
           /\ questions_with_context' =
                 IF resolved # <<>> THEN questions_with_context + 1
                 ELSE questions_with_context
           /\ IF ans # <<>> /\ resolved # <<>>
              THEN /\ answer_eval' \in evaluate_answer_faithfulness(ans, resolved, question_id)
                   /\ all_faithfulness_scores' =
                         Append(all_faithfulness_scores, answer_eval'.faithfulness_score)
                   /\ all_groundedness_scores' =
                         Append(all_groundedness_scores, answer_eval'.groundedness_score)
              ELSE UNCHANGED <<answer_eval, all_faithfulness_scores,
                               all_groundedness_scores>>
           /\ context_evals' \in ContextEvalLists(question, evaluated, 0)
           /\ all_context_scores' = all_context_scores \o RelevanceScores(context_evals')
           /\ issues' = issues
                         \o (IF ans # <<>> /\ resolved # <<>>
                             THEN UnsupportedIssue(question_id, answer_eval')
                             ELSE <<>>)
                         \o LowRelevanceIssue(question_id, context_evals')
           /\ question_details' =
                 IF verbose
                 THEN Append(question_details,
                        [question_id         |-> question_id,
                         question            |-> First100(question),
                         context_scores      |-> context_evals',
                         answer_faithfulness |-> LastOrNone(all_faithfulness_scores')])
                 ELSE question_details
    /\ qi' = qi + 1
    /\ UNCHANGED <<pc, questions, contexts, k, verbose, report,
                   retrieved, relevant, metrics, pairVars, supportVars>>

\* Lines 417-445: the aggregates, the report and its recommendations.
BuildReport ==
    /\ pc = "rag_loop"
    /\ qi = Len(questions)
    /\ report' \in build_reports(questions, all_context_scores, all_faithfulness_scores,
                                 all_groundedness_scores, questions_with_context,
                                 issues, question_details, k, verbose)
    /\ pc' = "rag_done"
    /\ UNCHANGED <<questions, contexts, k, verbose, qi, context_evals,
                   all_context_scores, all_faithfulness_scores,
                   all_groundedness_scores, issues, question_details,
                   questions_with_context, retrieved, relevant, metrics,
                   pairVars, faithVars, supportVars>>

Next == EvalQuestion \/ BuildReport

Spec == Init /\ [][Next]_vars

(***************************************************************************)
(* Claims about calculate_retrieval_metrics (checked under SpecRetrieval). *)
(***************************************************************************)
InUnit(x) == x \in 0..1000

\* the ids found in the first K positions, as a set
IdsInFirstK == {retrieved[i] : i \in 1..Min2(k, Len(retrieved))}

\* C1: for every ranked list (ids may repeat), relevant set and K >= 0, the
\* four ratio metrics precision_at_k, recall_at_k, mrr and ndcg_at_k all lie
\* in [0,1].
C1_RatioMetricsInUnitInterval ==
    pc = "metrics_done" =>
        /\ InUnit(metrics.precision_at_k)
        /\ InUnit(metrics.recall_at_k)
        /\ InUnit(metrics.mrr)
        /\ InUnit(metrics.ndcg_at_k)

\* C2: precision_at_k is |relevant /\ {ids in the first K positions}| / K
\* (0 when K = 0) and recall_at_k is the same count over |relevant| (0 when
\* the relevant set is empty), both rounded to 3 decimals.
C2_PrecisionRecallOfIdSets ==
    pc = "metrics_done" =>
        /\ metrics.precision_at_k =
             (IF k = 0 THEN 0
              ELSE Round3(Cardinality(relevant \cap IdsInFirstK), k))
        /\ metrics.recall_at_k =
             (IF relevant = {} THEN 0
              ELSE Round3(Cardinality(relevant \cap IdsInFirstK), Cardinality(relevant)))

RelevantRanks == {r \in 1..Len(retrieved) : retrieved[r] \in relevant}

FirstRelevantRank == CHOOSE r \in RelevantRanks : \A j \in RelevantRanks : r <= j

\* C3: the reciprocal rank is 1/r (rounded to 3 decimals) for the 1-indexed
\* position r of the first relevant id anywhere in the full retrieved list,
\* and 0 when no relevant id appears; it is 1.0 when the first retrieved id
\* is relevant, and it is the same for every K.
C3_ReciprocalRankOverFullList ==
    pc = "metrics_done" =>
        /\ RelevantRanks = {} => metrics.mrr = 0
        /\ RelevantRanks # {} => metrics.mrr = Round3(1, FirstRelevantRank)
        /\ (Len(retrieved) > 0 /\ retrieved[1] \in relevant) => metrics.mrr = 1000
        /\ \A k2 \in 0..MaxK :
              calculate_retrieval_metrics(retrieved, relevant, k2).mrr = metrics.mrr

\* C3 witness: the first relevant id sits at rank 3, beyond the cutoff K = 1.
C3_Witness ==
    /\ pc = "metrics_done"
    /\ k = 1
    /\ RelevantRanks # {}
    /\ FirstRelevantRank = 3
    /\ metrics.mrr = 333

\* The ranking is ideal in the words of C4: every relevant id is in the list
\* and no non-relevant id stands ahead of a relevant one.
IdealRanking ==
    /\ \A d \in relevant : \E i \in 1..Len(retrieved) : retrieved[i] = d
    /\ \A i, j \in 1..Len(retrieved) :
          (i < j /\ retrieved[j] \in relevant) => retrieved[i] \in relevant

IdealTopK ==
    LET n == Min2(Cardinality(relevant), k)
    IN  /\ Len(retrieved) >= n
        /\ \A i \in 1..n : retrieved[i] \in relevant
        /\ \A i \in (n + 1)..Min2(k, Len(retrieved)) : retrieved[i] \notin relevant

OverlapReturned == pc \in {"pair_overlap", "pair_done"}

\* C5 as stated: calculate_token_overlap is symmetric and returns 1.0 for
\* every non-empty text compared with itself.
C5_SymmetricAndOneOnNonEmptySelf ==
    OverlapReturned =>
        /\ FEq(overlap, calculate_token_overlap(text2, text1))
        /\ (text1 = text2 /\ text1 # <<>>) => FEq(overlap, FOne)

\* C5 amended: calculate_token_overlap is symmetric, returns 1.0 for every
\* text with at least one token compared with itself, and 0.0 for a text
\* that tokenizes to nothing (only stopwords and short words) compared with
\* itself.
C5_SymmetricAndOneOnTokenisedSelf ==
    OverlapReturned =>
        /\ FEq(overlap, calculate_token_overlap(text2, text1))
        /\ (text1 = text2 /\ tokenize(text1) # <<>>) => FEq(overlap, FOne)
        /\ (text1 = text2 /\ tokenize(text1) = <<>>) => FEq(overlap, FZero)

\* C5 witness: a text holding a stopword and two tokens, compared with itself.
C5_Witness ==
    /\ OverlapReturned
    /\ text1 = text2
    /\ Len(tokenize(text1)) = 2
    /\ Len(tokenize(text1)) < Cardinality({i \in DOMAIN text1 : IsWordLexeme(text1[i])})
    /\ FEq(overlap, FOne)

\* C6 as stated: calculate_rouge_l returns 1.0 for every pair of texts with
\* the same token sequence and 0.0 for every pair sharing no token.
C6_RougeOneOnSameTokensZeroOnDisjoint ==
    pc = "pair_done" =>
        /\ tokenize(text1) = tokenize(text2) => FEq(rouge, FOne)
        /\ SetOf(tokenize(text1)) \cap SetOf(tokenize(text2)) = {} => FEq(rouge, FZero)

\* C6 amended: calculate_rouge_l returns 1.0 for every pair of texts with the
\* same non-empty token sequence, and 0.0 for every pair sharing no token
\* (two texts without any token included).
C6_RougeOneOnSameNonEmptyTokens ==
    pc = "pair_done" =>
        /\ (tokenize(text1) = tokenize(text2) /\ tokenize(text1) # <<>>)
              => FEq(rouge, FOne)
        /\ SetOf(tokenize(text1)) \cap SetOf(tokenize(text2)) = {} => FEq(rouge, FZero)

\* C6 witness: two different texts that normalise to the same two tokens.
C6_Witness ==
    /\ pc = "pair_done"
    /\ text1 # text2
    /\ tokenize(text1) = tokenize(text2)
    /\ Len(tokenize(text1)) = 2
    /\ FEq(rouge, FOne)

(***************************************************************************)
(* Claims about claim support and answer faithfulness (under SpecFaith).   *)
(***************************************************************************)
ExtractedClaims == extract_claims(answer)

ZeroTokenClaims == {j \in DOMAIN ExtractedClaims : tokenize(ExtractedClaims[j]) = <<>>}

\* the contexts joined by one blank: the combined body
CombinedBody == JoinBlank(q_contexts)

\* C7: a claim whose tokenization leaves zero tokens is reported by
\* check_claim_support as supported with score 1.0 for every context (the
\* empty context included), and evaluate_answer_faithfulness counts it as a
\* supported claim.
C7_ZeroTokenClaimIsSupported ==
    pc = "faith_done" =>
        /\ \A j \in ZeroTokenClaims :
              /\ \A ctx \in ContextTexts \cup {CombinedBody} \cup SetOf(q_contexts) :
                    \A res \in check_claim_support(ExtractedClaims[j], ctx) :
                        res.supported /\ FEq(res.score, FOne)
              /\ answer_eval.claims[j].supported
              /\ answer_eval.claims[j].score = 1000
              /\ \A u \in DOMAIN answer_eval.unsupported_claims :
                    answer_eval.unsupported_claims[u] # ExtractedClaims[j]
        /\ ExtractedClaims # <<>> =>
              answer_eval.faithfulness_score
                >= Round3(Cardinality(ZeroTokenClaims), Len(ExtractedClaims))

\* C7 witness: an answer with a token-free claim and an unsupported claim,
\* scored against an empty context.
C7_Witness ==
    /\ pc = "faith_done"
    /\ ZeroTokenClaims # {}
    /\ Len(ExtractedClaims) = 2
    /\ q_contexts = << <<>> >>
    /\ answer_eval.faithfulness_score = 500
    /\ Len(answer_eval.unsupported_claims) = 1

SupportedAgainstBody ==
    {j \in DOMAIN ExtractedClaims :
        \A res \in check_claim_support(ExtractedClaims[j], CombinedBody) : res.supported}

\* the sum over the claims of f(claim)
RECURSIVE SumOverClaims(_, _)
SumOverClaims(f(_), claims) ==
    IF claims = <<>> THEN 0 ELSE f(Head(claims)) + SumOverClaims(f, Tail(claims))

ReportedBodyScore(claim) == FRound3(support_score(claim, CombinedBody))

Abs(x) == IF x < 0 THEN -x ELSE x

\* C8: faithfulness_score is (claims supported against the combined context
\* body) / (extracted claims), to 3 decimals; groundedness_score is the mean
\* of the per-claim support scores (each as reported, to 3 decimals) against
\* the combined body, to the nearest thousandth; with zero extracted claims
\* both are 1.0.
C8_FaithfulnessAndGroundedness ==
    pc = "faith_done" =>
        LET n == Len(ExtractedClaims)
        IN  /\ Len(answer_eval.claims) = n
            /\ n = 0 => /\ answer_eval.faithfulness_score = 1000
                        /\ answer_eval.groundedness_score = 1000
            /\ n > 0 =>
                  /\ answer_eval.faithfulness_score
                        = Round3(Cardinality(SupportedAgainstBody), n)
                  /\ 2 * Abs(answer_eval.groundedness_score * n
                              - SumOverClaims(ReportedBodyScore, ExtractedClaims)) <= n

\* C8 witness: two claims, one of them supported by the combined body only
\* in part, the other not at all.
C8_Witness ==
    /\ pc = "faith_done"
    /\ Len(ExtractedClaims) = 2
    /\ Len(q_contexts) = 2
    /\ answer_eval.faithfulness_score = 500
    /\ answer_eval.groundedness_score > 0
    /\ answer_eval.groundedness_score < 500

(***************************************************************************)
(* Claims about evaluate_rag_system (checked under Spec).                  *)
(***************************************************************************)
\* some context of the pool is linked to the id of the i-th question
HasLinkedContext(i) ==
    \E j \in DOMAIN contexts :
        IsLinkedTo(contexts[j], question_id_of(questions, questions[i]))

\* the fallback contexts[:K] holds at least one context
HasFallbackContext == k >= 1 /\ contexts # <<>>

EveryQuestionResolvesAContext ==
    \A i \in DOMAIN questions : HasLinkedContext(i) \/ HasFallbackContext

\* C9 as stated: for every question list, context pool and K, the coverage
\* of the report is 1.0 if and only if every question resolves at least one
\* context, by explicit linkage or by fallback.
C9_CoverageOneIffEveryQuestionResolves ==
    pc = "rag_done" =>
        (report.coverage = 1000 <=> EveryQuestionResolvesAContext)

\* C9 amended: for every non-empty question list of fewer than 2000
\* questions, the coverage of the report is 1.0 if and only if every
\* question resolves at least one context; for the empty question list the
\* coverage is 0.  (The coverage reported is rounded to three decimals, so
\* from 2000 questions on a ratio below 1 can be reported as 1.0.)
C9_CoverageOneIffEveryQuestionOfNonEmptyList ==
    pc = "rag_done" =>
        /\ (questions # <<>> /\ Len(questions) < 2000) =>
               (report.coverage = 1000 <=> EveryQuestionResolvesAContext)
        /\ questions = <<>> => report.coverage = 0

\* two questions, the first resolved by linkage only, the second by
\* fallback only, and a coverage of 1.0
C9_Witness ==
    /\ pc = "rag_done"
    /\ Len(questions) = 2
    /\ HasLinkedContext(1)
    /\ ~HasLinkedContext(2)
    /\ HasFallbackContext
    /\ report.coverage = 1000

ContextEvalsInUnit(evals) ==
    \A i \in DOMAIN evals :
        InUnit(evals[i].relevance_score) /\ InUnit(evals[i].token_overlap)

AnswerEvalInUnit(e) ==
    /\ InUnit(e.faithfulness_score)
    /\ InUnit(e.groundedness_score)
    /\ \A i \in DOMAIN e.claims :
          /\ InUnit(e.claims[i].score)
          /\ \A c \in DOMAIN e.claims[i].context : InUnit(e.claims[i].context[c])

AllInUnit(scores) == \A i \in DOMAIN scores : InUnit(scores[i])

\* C10: every ratio score produced during a run lies in [0,1]: the
\* relevance_score and token_overlap of every ContextEvaluation, the support
\* score of every claim, the faithfulness_score and groundedness_score of
\* every AnswerEvaluation, and avg_context_relevance, avg_faithfulness,
\* avg_groundedness, coverage and the proxy precision_at_k of the report.
C10_RatioScoresInUnitInterval ==
    /\ ContextEvalsInUnit(context_evals)
    /\ AnswerEvalInUnit(answer_eval)
    /\ AllInUnit(all_context_scores)
    /\ AllInUnit(all_faithfulness_scores)
    /\ AllInUnit(all_groundedness_scores)
    /\ \A i \in DOMAIN question_details :
          ContextEvalsInUnit(question_details[i].context_scores)
    /\ InUnit(report.avg_context_relevance)
    /\ InUnit(report.avg_faithfulness)
    /\ InUnit(report.avg_groundedness)
    /\ InUnit(report.coverage)
    /\ InUnit(report.retrieval_metrics.precision_at_k)

\* a finished run that evaluated contexts and answers, with a context of
\* relevance 1.0 and averages strictly between 0 and 1
C10_Witness ==
    /\ pc = "rag_done"
    /\ \E i \in DOMAIN all_context_scores : all_context_scores[i] = 1000
    /\ all_faithfulness_scores # <<>>
    /\ report.avg_context_relevance > 0
    /\ report.avg_context_relevance < 1000
    /\ report.avg_groundedness > 0
    /\ report.avg_groundedness < 1000
    /\ report.retrieval_metrics.precision_at_k > 0

(***************************************************************************)
(* The specification of generate_recommendations alone: a report whose     *)
(* five scores are drawn around the targets, then the call.                *)
(***************************************************************************)
\* the scores next to a target t: just below it, the target, and 1.0
Around(t) == {t - 1, t, 1000}

ReportSamples ==
    { [NoReport EXCEPT !.total_questions = 1,
                       !.avg_context_relevance = r,
                       !.avg_faithfulness = f,
                       !.avg_groundedness = g,
                       !.coverage = c,
                       !.retrieval_metrics = [precision_at_k |-> p,
                                              estimated_recall |-> c, k |-> 1]] :
        r \in Around(800), f \in Around(950), g \in Around(850),
        c \in Around(900), p \in Around(700) }

InitRecommend ==
    /\ pc = "recommend_start"
    /\ report \in ReportSamples
    /\ questions = <<>>
    /\ contexts = <<>>
    /\ verbose = FALSE
    /\ qi = 0
    /\ context_evals = <<>>
    /\ all_context_scores = <<>>
    /\ all_faithfulness_scores = <<>>
    /\ all_groundedness_scores = <<>>
    /\ issues = <<>>
    /\ question_details = <<>>
    /\ questions_with_context = 0
    /\ IdleRetrieval
    /\ IdlePair
    /\ IdleFaith
    /\ IdleSupport

\* line 443: report.recommendations = generate_recommendations(report)
GenerateRecommendations ==
    /\ pc = "recommend_start"
    /\ report' = [report EXCEPT !.recommendations = generate_recommendations(report)]
    /\ pc' = "recommend_done"
    /\ UNCHANGED <<questions, contexts, verbose, qi, context_evals,
                   all_context_scores, all_faithfulness_scores,
                   all_groundedness_scores, issues, question_details,
                   questions_with_context, retrievalVars, pairVars, faithVars, supportVars>>

NextRecommend == GenerateRecommendations

SpecRecommend == InitRecommend /\ [][NextRecommend]_vars

(***************************************************************************)
(* Claims about generate_recommendations (checked under SpecRecommend).    *)
(***************************************************************************)
\* the five rules in the order of the claim
RuleOrder ==
    <<"context_relevance", "faithfulness", "groundedness", "coverage",
      "retrieval_precision">>

IsBreached(rule) ==
    CASE rule = "context_relevance"   -> report.avg_context_relevance < 800
      [] rule = "faithfulness"        -> report.avg_faithfulness < 950
      [] rule = "groundedness"        -> report.avg_groundedness < 850
      [] rule = "coverage"            -> report.coverage < 900
      [] rule = "retrieval_precision" -> report.retrieval_metrics.precision_at_k < 700
      [] OTHER -> FALSE

NoneBreached == \A i \in DOMAIN RuleOrder : ~IsBreached(RuleOrder[i])

\* C11: generate_recommendations emits exactly one message for each breached
\* threshold (relevance < 0.80, faithfulness < 0.95, groundedness < 0.85,
\* coverage < 0.90, precision@K < 0.70), in that order, and the single
\* "all metrics meet targets" message if and only if none is breached; the
\* list is never empty and has between 1 and 5 entries.
C11_OneMessagePerBreachedThreshold ==
    pc = "recommend_done" =>
        /\ ~NoneBreached => report.recommendations = SelectSeq(RuleOrder, IsBreached)
        /\ NoneBreached <=> report.recommendations = <<"all_metrics_meet_targets">>
        /\ Len(report.recommendations) \in 1..5

\* relevance exactly at its target (no message), faithfulness and precision
\* breached: two messages, in rule order
C11_Witness ==
    /\ pc = "recommend_done"
    /\ report.avg_context_relevance = 800
    /\ report.avg_faithfulness = 949
    /\ report.retrieval_metrics.precision_at_k = 699
    /\ report.recommendations = <<"faithfulness", "retrieval_precision">>

(***************************************************************************)
(* The specification of evaluate_rag_system on long question lists: up to  *)
(* MaxCapQuestions questions alternating between two question records    *)
(* (those of Spec and one with a four-claim answer), a                     *)
(* pool of at most one context, K in 0..MaxK, not verbose.  The steps are  *)
(* those of Spec.                                                          *)
(***************************************************************************)
CycledQuestions(qa, qb, n) == [i \in 1..n |-> IF i % 2 = 1 THEN qa ELSE qb]

\* a question whose answer has four claims
LongAnswerRecord ==
    [id |-> "q2", question |-> <<"france">>,
     answer |-> <<"paris", " ", "france", "!", " ", "the", " ", "city", " ", "city", "?",
                  " ", "paris", " ", "paris", ".", " ", "the", " ", "population", ".">>]

CapQuestionRecords == QuestionRecords \cup {LongAnswerRecord}

InitCap ==
    /\ pc = "rag_loop"
    /\ \E qa \in CapQuestionRecords, qb \in CapQuestionRecords, n \in 0..MaxCapQuestions :
          questions = CycledQuestions(qa, qb, n)
    /\ contexts \in SeqsUpTo(ContextRecords, 1)
    /\ k \in 0..MaxK
    /\ verbose = FALSE
    /\ qi = 0
    /\ context_evals = <<>>
    /\ all_context_scores = <<>>
    /\ all_faithfulness_scores = <<>>
    /\ all_groundedness_scores = <<>>
    /\ issues = <<>>
    /\ question_details = <<>>
    /\ questions_with_context = 0
    /\ report = NoReport
    /\ retrieved = <<>>
    /\ relevant = {}
    /\ metrics = NoMetrics
    /\ IdlePair
    /\ IdleFaith
    /\ IdleSupport

SpecCap == InitCap /\ [][Next]_vars

(***************************************************************************)
(* Claims about the issue list (checked under SpecCap).                    *)
(***************************************************************************)
\* a is an initial segment of b
IsPrefixOf(a, b) == Len(a) <= Len(b) /\ \A i \in DOMAIN a : a[i] = b[i]

\* C12: after any sequence of questions the report's issues list has at most
\* 20 entries and is exactly the first 20 (or all, if fewer) of the issues
\* recorded while processing the questions in input order; an issue once
\* recorded keeps its place (later issues are only appended).
C12_IssuesAreTheFirstTwenty ==
    /\ [](pc = "rag_done" =>
            /\ Len(report.issues) <= 20
            /\ Len(report.issues) = Min2(20, Len(issues))
            /\ IsPrefixOf(report.issues, issues))
    /\ [][IsPrefixOf(issues, issues')]_vars

\* more than 20 issues were recorded, of two kinds, and 20 are reported
C12_Witness ==
    /\ pc = "rag_done"
    /\ Len(issues) > 20
    /\ Len(report.issues) = 20
    /\ issues[20].type # issues[21].type

\* the issues the step appended
NewIssues == SubSeq(issues', Len(issues) + 1, Len(issues'))

NewIssuesOfType(type) == SelectSeq(NewIssues, LAMBDA issue : issue.type = type)

\* the step ran evaluate_answer_faithfulness
AnswerEvaluated == Len(all_faithfulness_scores') = Len(all_faithfulness_scores) + 1

\* the context ids of the evaluations below 0.5, in order
LowContextIds(evals) ==
    LET low == SelectSeq(evals, LAMBDA e : e.relevance_score < 500)
    IN  [i \in DOMAIN low |-> low[i].context_id]

\* C13: for each question a low_relevance issue is recorded if and only if at
\* least one of its evaluated contexts has relevance_score below 0.5, and it
\* lists exactly those contexts; an unsupported_claim issue is recorded if
\* and only if the question's answer evaluation has at least one unsupported
\* claim, and it carries the first three of them at most, in answer order.
C13_IssuesPerQuestion ==
    [][ qi' = qi + 1 =>
          /\ Len(NewIssuesOfType("low_relevance")) =
                IF LowContextIds(context_evals') # <<>> THEN 1 ELSE 0
          /\ \A i \in DOMAIN NewIssuesOfType("low_relevance") :
                NewIssuesOfType("low_relevance")[i].contexts = LowContextIds(context_evals')
          /\ Len(NewIssuesOfType("unsupported_claim")) =
                IF AnswerEvaluated /\ answer_eval'.unsupported_claims # <<>> THEN 1 ELSE 0
          /\ \A i \in DOMAIN NewIssuesOfType("unsupported_claim") :
                LET carried == NewIssuesOfType("unsupported_claim")[i].claims
                IN  /\ Len(carried) = Min2(3, Len(answer_eval'.unsupported_claims))
                    /\ \A j \in DOMAIN carried :
                          carried[j] = answer_eval'.unsupported_claims[j]
          /\ Len(NewIssues) = Len(NewIssuesOfType("low_relevance"))
                              + Len(NewIssuesOfType("unsupported_claim"))
      ]_vars

\* the last question had four unsupported claims and a context below 0.5:
\* its two issues were recorded, the first carrying three claims
C13_Witness ==
    /\ qi >= 1
    /\ Len(answer_eval.unsupported_claims) = 4
    /\ Len(issues) >= 2
    /\ issues[Len(issues) - 1].type = "unsupported_claim"
    /\ Len(issues[Len(issues) - 1].claims) = 3
    /\ issues[Len(issues)].type = "low_relevance"
    /\ issues[Len(issues)].contexts = <<CtxId(0)>>

(***************************************************************************)
(* The specification of evaluate_rag_system with an answered question that *)
(* has no id: up to MaxAvgQuestions questions, a pool of up to MaxPool     *)
(* contexts, K one of 0, 1 and MaxK, not verbose.  The steps are those of  *)
(* Spec.                                                                   *)
(***************************************************************************)
\* a question with an answer and no id: its id is its list index
UnnamedAnsweredRecord ==
    [question |-> <<"france", " ", "city">>,
     answer   |-> <<"paris", " ", "france", "!">>]

AvgQuestionRecords == QuestionRecords \cup {UnnamedAnsweredRecord}

InitAvg ==
    /\ pc = "rag_loop"
    /\ questions \in SeqsUpTo(AvgQuestionRecords, MaxAvgQuestions)
    /\ contexts \in SeqsUpTo(ContextRecords, MaxPool)
    /\ k \in {0, 1, MaxK}
    /\ verbose = FALSE
    /\ qi = 0
    /\ context_evals = <<>>
    /\ all_context_scores = <<>>
    /\ all_faithfulness_scores = <<>>
    /\ all_groundedness_scores = <<>>
    /\ issues = <<>>
    /\ question_details = <<>>
    /\ questions_with_context = 0
    /\ report = NoReport
    /\ retrieved = <<>>
    /\ relevant = {}
    /\ metrics = NoMetrics
    /\ IdlePair
    /\ IdleFaith
    /\ IdleSupport

SpecAvg == InitAvg /\ [][Next]_vars

(***************************************************************************)
(* Claims about the averages (checked under SpecAvg).                      *)
(***************************************************************************)
\* the contexts the i-th question of the list qs resolves
ResolvedOf(qs, i) == ResolveContexts(contexts, question_id_of(qs, qs[i]), k)

\* the i-th question of qs has a non-empty answer and a resolved context
IsAveraged(qs, i) == answer_of(qs[i]) # <<>> /\ ResolvedOf(qs, i) # <<>>

\* the answer evaluations the i-th question of qs can get
AnswerEvalsOf(qs, i) ==
    evaluate_answer_faithfulness(answer_of(qs[i]), ResolvedOf(qs, i),
                                 question_id_of(qs, qs[i]))

\* For the first n questions of qs, in order, one term per averaged question:
\* the pairs <<faithfulness, groundedness>> its evaluation can have.
RECURSIVE AveragedTerms(_, _)
AveragedTerms(qs, n) ==
    IF n = 0 THEN <<>>
    ELSE AveragedTerms(qs, n - 1) \o
         (IF IsAveraged(qs, n)
          THEN << {<<e.faithfulness_score, e.groundedness_score>> : e \in AnswerEvalsOf(qs, n)} >>
          ELSE <<>>)

\* the list qs without its p-th question
Without(qs, p) == SubSeq(qs, 1, p - 1) \o SubSeq(qs, p + 1, Len(qs))

HasExplicitId(q_data) == "id" \in DOMAIN q_data

\* the scores summed are, term by term, those of the averaged questions, and
\* the two averages are their means to three decimals (0 without a term)
AveragesOverAveragedQuestions ==
    LET terms == AveragedTerms(questions, Len(questions))
    IN  /\ Len(all_faithfulness_scores) = Len(terms)
        /\ Len(all_groundedness_scores) = Len(terms)
        /\ \A j \in DOMAIN terms :
              <<all_faithfulness_scores[j], all_groundedness_scores[j]>> \in terms[j]
        /\ IF terms = <<>>
           THEN report.avg_faithfulness = 0 /\ report.avg_groundedness = 0
           ELSE /\ report.avg_faithfulness \in
                     Round3Set(SumSeq(all_faithfulness_scores), 1000 * Len(terms))
                /\ report.avg_groundedness \in
                     Round3Set(SumSeq(all_groundedness_scores), 1000 * Len(terms))

\* taking the p-th question away leaves the terms of the averages as they are
SameTermsWithout(p) ==
    AveragedTerms(Without(questions, p), Len(questions) - 1)
        = AveragedTerms(questions, Len(questions))

\* C14 as stated: avg_faithfulness and avg_groundedness are the means over
\* exactly the questions with a non-empty answer and at least one resolved
\* context; a question lacking either contributes no term, so adding such a
\* question to a dataset (at any place) leaves both averages unchanged.
C14_AveragesUnchangedByAddedQuestion ==
    pc = "rag_done" =>
        /\ AveragesOverAveragedQuestions
        /\ \A p \in DOMAIN questions :
              ~IsAveraged(questions, p) => SameTermsWithout(p)

\* C14 amended: the same means; a question lacking an answer or contexts
\* contributes no term, so appending such a question at the end of the list,
\* or adding it at any place of a list whose other questions all give an id,
\* leaves both averages unchanged.
C14_AveragesUnchangedByAppendedQuestion ==
    pc = "rag_done" =>
        /\ AveragesOverAveragedQuestions
        /\ \A p \in DOMAIN questions :
              /\ ~IsAveraged(questions, p)
              /\ \/ p = Len(questions)
                 \/ \A i \in DOMAIN questions \ {p} : HasExplicitId(questions[i])
              => SameTermsWithout(p)

\* an averaged question followed by one without an answer: one term, and
\* averages that are not 0
C14_Witness ==
    /\ pc = "rag_done"
    /\ Len(questions) = 2
    /\ IsAveraged(questions, 1)
    /\ answer_of(questions[2]) = <<>>
    /\ Len(all_faithfulness_scores) = 1
    /\ report.avg_faithfulness = 1000
    /\ report.avg_groundedness > 0

(***************************************************************************)
(* Claims about context resolution (checked under Spec).                   *)
(***************************************************************************)
\* the id of the question the loop processed last
LastQuestionId == question_id_of(questions, questions[qi])

\* the positions of the pool contexts whose link is the id
LinkedPositions(id) ==
    {j \in DOMAIN contexts :
        \/ ("question_id" \in DOMAIN contexts[j] /\ contexts[j].question_id = id)
        \/ ("query_id" \in DOMAIN contexts[j] /\ contexts[j].query_id = id)}

\* the contents of the pool contexts at the positions P, in pool order
ContentsAt(P) ==
    [n \in 1..Cardinality(P) |->
        content_of(contexts[CHOOSE j \in P : Cardinality({i \in P : i < j}) = n - 1])]

InitInvalid ==
    /\ pc = "rag_loop"
    /\ questions \in SeqsUpTo(QuestionRecords \cup {NotADict}, MaxQuestions)
    /\ contexts \in SeqsUpTo(ContextRecords \cup {NotADict}, MaxPool)
    /\ k \in {0, 1}
    /\ verbose = FALSE
    /\ qi = 0
    /\ context_evals = <<>>
    /\ all_context_scores = <<>>
    /\ all_faithfulness_scores = <<>>
    /\ all_groundedness_scores = <<>>
    /\ issues = <<>>
    /\ question_details = <<>>
    /\ questions_with_context = 0
    /\ report = NoReport
    /\ retrieved = <<>>
    /\ relevant = {}
    /\ metrics = NoMetrics
    /\ IdlePair
    /\ IdleFaith
    /\ IdleSupport

\* An iteration of the loop of line 359 that raises: q_data.get (line 360)
\* when the question is not a dict, else ctx.get (line 368) at the first
\* context of the pool that is not one.
RaiseAttributeError ==
    /\ pc = "rag_loop"
    /\ qi < Len(questions)
    /\ \/ ~IsDict(questions[qi + 1])
       \/ \E j \in DOMAIN contexts : ~IsDict(contexts[j])
    /\ pc' = "rag_error"
    /\ UNCHANGED <<retrievalVars, pairVars, faithVars, ragVars, supportVars>>

NextInvalid == EvalQuestion \/ BuildReport \/ RaiseAttributeError

SpecInvalid == InitInvalid /\ [][NextInvalid]_vars

(***************************************************************************)
(* Claims about invalid datasets (checked under SpecInvalid).              *)
(***************************************************************************)
IsInvalidDataset ==
    \/ \E i \in DOMAIN questions : ~IsDict(questions[i])
    \/ \E j \in DOMAIN contexts : ~IsDict(contexts[j])

\* C16: whenever some entry of the question list or of the context pool is
\* not a well-formed record, evaluate_rag_system aborts with an error and
\* produces no report, whatever the other entries are (including when the
\* question list is empty).
C16_InvalidDatasetYieldsNoReport ==
    IsInvalidDataset => (pc # "rag_done" /\ report = NoReport)

(***************************************************************************)
(* Claims about the order of the report's lists (checked under Spec).      *)
(***************************************************************************)
\* the lists of ContextEvaluations a run can put in the detail of the i-th
\* question
DetailContextScores(i) ==
    ContextEvalLists(question_of(questions[i]),
                     Prefix(ResolvedOf(questions, i), k), 0)

\* C17: two runs of evaluate_rag_system on the same questions, contexts, K
\* and verbose flag yield identical reports, including the order of the
\* covered and missing key-term lists of each ContextEvaluation: what a run
\* put in a question's detail is the only thing a run can put there.
C17_TermListsAreDetermined ==
    pc = "rag_done" =>
        \A i \in DOMAIN report.question_details :
            DetailContextScores(i) = {report.question_details[i].context_scores}

(***************************************************************************)
(* Claims about the independence of the questions (checked under SpecAvg). *)
(***************************************************************************)
\* the question the step processes, as a list of its own
Alone == <<questions[qi + 1]>>

\* C18: for a question with an explicit id, the context evaluations, the
\* answer evaluation, the issues and the contributions to the running sums
\* depend only on that question, the context pool and K: each loop step
\* yields what the question yields when evaluated alone, whatever the other
\* questions and the state left by the earlier ones (so the per-question
\* results can be computed in any interleaving and merged in question order).
C18_QuestionEvaluatedAsAlone ==
    [][ (qi' = qi + 1 /\ HasExplicitId(questions[qi + 1])) =>
          LET resolved == ResolvedOf(Alone, 1)
              averaged == IsAveraged(Alone, 1)
          IN  /\ q_contexts' = resolved
              /\ context_evals' \in
                    ContextEvalLists(question_of(Alone[1]), Prefix(resolved, k), 0)
              /\ all_context_scores' = all_context_scores \o RelevanceScores(context_evals')
              /\ questions_with_context' =
                    questions_with_context + (IF resolved # <<>> THEN 1 ELSE 0)
              /\ AnswerEvaluated <=> averaged
              /\ averaged =>
                    /\ answer_eval' \in AnswerEvalsOf(Alone, 1)
                    /\ all_faithfulness_scores' =
                          Append(all_faithfulness_scores, answer_eval'.faithfulness_score)
                    /\ all_groundedness_scores' =
                          Append(all_groundedness_scores, answer_eval'.groundedness_score)
              /\ ~averaged =>
                    /\ all_faithfulness_scores' = all_faithfulness_scores
                    /\ all_groundedness_scores' = all_groundedness_scores
              /\ NewIssues =
                    (IF averaged
                     THEN UnsupportedIssue(Alone[1].id, answer_eval') ELSE <<>>)
                    \o LowRelevanceIssue(Alone[1].id, context_evals')
      ]_vars

\* the second question of a list, with an explicit id, was evaluated after a
\* first one that left scores and an answer evaluation behind
C18_Witness ==
    /\ qi = 2
    /\ HasExplicitId(questions[2])
    /\ questions[1] # questions[2]
    /\ Len(all_faithfulness_scores) = 2
    /\ Len(all_context_scores) >= 2
    /\ issues # <<>>

(***************************************************************************)
(* Claims about the fallback mode (checked under Spec).                    *)
(***************************************************************************)
\* the reports a run on the one question q_data, not verbose, can build
ReportsOfOne(q_data, ctxs, kk) ==
    LET question_id == question_id_of(<<q_data>>, q_data)
        resolved    == ResolveContexts(ctxs, question_id, kk)
        ans         == answer_of(q_data)
        averaged    == ans # <<>> /\ resolved # <<>>
    IN  UNION { build_reports(<<q_data>>, RelevanceScores(evals),
                    IF averaged THEN <<e.faithfulness_score>> ELSE <<>>,
                    IF averaged THEN <<e.groundedness_score>> ELSE <<>>,
                    IF resolved # <<>> THEN 1 ELSE 0,
                    (IF averaged THEN UnsupportedIssue(question_id, e) ELSE <<>>)
                        \o LowRelevanceIssue(question_id, evals),
                    <<>>, kk, FALSE) :
                evals \in ContextEvalLists(question_of(q_data), Prefix(resolved, kk), 0),
                e \in (IF averaged
                       THEN evaluate_answer_faithfulness(ans, resolved, question_id)
                       ELSE {NoAnswerEval}) }

\* the contexts ctxs, each explicitly linked to the question id
LinkedTo(ctxs, id) ==
    [j \in DOMAIN ctxs |-> [question_id |-> id, content |-> content_of(ctxs[j])]]

\* C19: fallback is never silently equated with true linkage: the report
\* built for a question whose contexts were resolved by fallback (the first
\* K contexts of an unlinked pool) differs from the report built for the
\* same question with the same contexts explicitly linked to it.  Stated
\* for runs on one question that are not verbose.
C19_FallbackReportDiffersFromLinked ==
    ( /\ pc = "rag_done"
      /\ Len(questions) = 1
      /\ ~verbose
      /\ LinkedPositions(question_id_of(questions, questions[1])) = {}
      /\ k >= 1
      /\ contexts # <<>> )
    => report \notin ReportsOfOne(questions[1],
                        LinkedTo(Prefix(contexts, k),
                                 question_id_of(questions, questions[1])), k)

(***************************************************************************)
(* The specification of check_claim_support alone: a claim out of           *)
(* SupportClaims, a context of up to MaxSupportWords words, then the call.  *)
(***************************************************************************)
\* The claims: five different tokens, two tokens, no token, two tokens the
\* contexts never hold, and a repeated token.
SupportClaims ==
    { <<"paris", " ", "france", " ", "city", " ", "population", " ", "capital">>,
      <<"Paris", " ", "france">>,
      <<"the">>,
      <<"city", " ", "capital">>,
      <<"million", " ", "million", " ", "paris">> }

SupportWords == {"paris", "france", "million"}

InitSupport ==
    /\ pc = "support_start"
    /\ support_claim \in SupportClaims
    /\ support_context \in TextsOver(SupportWords, MaxSupportWords)
    /\ support_result = NoSupport
    /\ IdleRetrieval
    /\ IdlePair
    /\ answer = <<>>
    /\ q_contexts = <<>>
    /\ answer_eval = NoAnswerEval
    /\ IdleRag

CheckClaimSupport ==
    /\ pc = "support_start"
    /\ support_result' \in check_claim_support(support_claim, support_context)
    /\ pc' = "support_done"
    /\ UNCHANGED <<support_claim, support_context, retrievalVars, pairVars,
                   faithVars, ragVars>>

NextSupport == CheckClaimSupport

SpecSupport == InitSupport /\ [][NextSupport]_vars

(***************************************************************************)
(* Claims about check_claim_support (checked under SpecSupport).           *)
(***************************************************************************)
ClaimTokenSet == SetOf(tokenize(support_claim))

ContextTokenSet == SetOf(tokenize(support_context))

\* 0.5 * (|claim tokens that are context tokens| / |claim tokens|)
\*   + 0.5 * ROUGE-L F1(context, claim)
ClaimedSupportScore ==
    FAdd(FMul(Frac(1, 2),
              Frac(Cardinality(ClaimTokenSet \cap ContextTokenSet),
                   Cardinality(ClaimTokenSet))),
         FMul(Frac(1, 2), calculate_rouge_l(support_context, support_claim)))

\* C20: for every claim with at least one token and every context,
\* check_claim_support returns the score 0.5 * (shared token share) + 0.5 *
\* ROUGE-L F1(context, claim) and reports supported if and only if that
\* score is strictly above 0.3; so a claim sharing no token with the context
\* has score 0 and is unsupported, and a claim all of whose tokens occur in
\* the context is supported.
C20_SupportedIffScoreAboveThreshold ==
    (pc = "support_done" /\ ClaimTokenSet # {}) =>
        /\ FEq(support_result.score, ClaimedSupportScore)
        /\ support_result.supported <=> FGt(ClaimedSupportScore, Frac(3, 10))
        /\ ClaimTokenSet \cap ContextTokenSet = {} =>
              (FEq(support_result.score, FZero) /\ ~support_result.supported)
        /\ ClaimTokenSet \subseteq ContextTokenSet => support_result.supported

(***************************************************************************)
(* Claims about extract_claims (checked under SpecFaith).                  *)
(***************************************************************************)
\* the positions of the answer where a terminator-free stretch begins
FragmentStarts(text) ==
    {a \in DOMAIN text : text[a] \notin Terminators
                         /\ (a = 1 \/ text[a - 1] \in Terminators)}

\* the terminator-free stretch that begins at position a
FragmentAt(text, a) ==
    LET b == CHOOSE e \in a..Len(text) :
                /\ \A i \in a..e : text[i] \notin Terminators
                /\ (e = Len(text) \/ text[e + 1] \in Terminators)
    IN  SubSeq(text, a, b)

\* the trimmed non-empty fragments from position a on, in their order
RECURSIVE TrimmedFragmentsFrom(_, _)
TrimmedFragmentsFrom(text, a) ==
    IF a > Len(text) THEN <<>>
    ELSE IF a \in FragmentStarts(text)
         THEN <<strip(FragmentAt(text, a))>> \o TrimmedFragmentsFrom(text, a + 1)
         ELSE TrimmedFragmentsFrom(text, a + 1)

AtLeastTenCharacters(fragment) == CharLen(fragment) >= 10

\* the claims the call evaluated, as listed in the AnswerEvaluation
EvaluatedClaims == [j \in DOMAIN answer_eval.claims |-> answer_eval.claims[j].claim]

\* C21: extract_claims splits the answer on runs of '.', '!' and '?', trims
\* each fragment, discards exactly the fragments shorter than 10 characters
\* (a trimmed fragment of 10 or more characters is kept) and returns the
\* kept fragments in their original order.
C21_KeepsFragmentsOfTenOrMore ==
    pc = "faith_done" =>
        /\ extract_claims(answer)
              = SelectSeq(TrimmedFragmentsFrom(answer, 1), AtLeastTenCharacters)
        /\ EvaluatedClaims
              = SelectSeq(TrimmedFragmentsFrom(answer, 1), AtLeastTenCharacters)

(***************************************************************************)
(* Claims about evaluate_context_relevance (checked under Spec).           *)
(***************************************************************************)
\* the text of the question the loop has just processed
LastQuestion == question_of(questions[qi])

\* the key-term sets of a question and of a context
QuestionKeyTerms(question) == SetOf(extract_key_terms(question, QuestionTopN))

ContextKeyTerms(context) == SetOf(extract_key_terms(context, ContextTopN))

\* |A n B| / |A u B| over the full token sets, 0 when there is no token
Jaccard(t1, t2) ==
    LET A == SetOf(tokenize(t1))
        B == SetOf(tokenize(t2))
    IN  IF A \cup B = {} THEN FZero
        ELSE Frac(Cardinality(A \cap B), Cardinality(A \cup B))

\* |covered| / |terms|, 0 when there is no term
TermCoverage(terms, covered) ==
    IF terms = {} THEN FZero ELSE Frac(Cardinality(covered), Cardinality(terms))

NoRepeat(list) == Cardinality(SetOf(list)) = Len(list)

\* C22: for every (question, context) pair the covered and missing term
\* lists partition the question's key-term set (covered = question key terms
\* n context key terms, missing = the rest), relevance_score is
\* 0.6 * (|covered| / |question key terms|) + 0.4 * Jaccard(question, context)
\* to 3 decimals, the coverage being 0 for a question without key terms; so
\* an absent or empty question text has relevance_score 0 for every context.
C22_TermListsPartitionAndScore ==
    \A i \in DOMAIN context_evals :
        LET e       == context_evals[i]
            context == q_contexts[i]
            terms   == QuestionKeyTerms(LastQuestion)
            covered == SetOf(e.key_terms_covered)
            missing == SetOf(e.missing_terms)
            exact   == FAdd(FMul(Frac(6, 10), TermCoverage(terms, covered)),
                            FMul(Frac(4, 10), Jaccard(LastQuestion, context)))
        IN  /\ NoRepeat(e.key_terms_covered) /\ NoRepeat(e.missing_terms)
            /\ covered = terms \cap ContextKeyTerms(context)
            /\ missing = terms \ covered
            /\ covered \cap missing = {}
            /\ covered \cup missing = terms
            /\ e.relevance_score \in Round3Set(exact.n, exact.d)
            /\ LastQuestion = <<>> => e.relevance_score = 0

\* C22 witness: verbose, a first question without question text evaluated
\* against a context, then a question of which the context covers one key
\* term and misses another.
C22_Witness ==
    /\ qi = 2
    /\ verbose
    /\ question_of(questions[1]) = <<>>
    /\ question_details[1].context_scores # <<>>
    /\ \E i \in DOMAIN context_evals :
          /\ context_evals[i].key_terms_covered # <<>>
          /\ context_evals[i].missing_terms # <<>>
          /\ context_evals[i].relevance_score > 0

(***************************************************************************)
(* Claims about the LCS table of calculate_rouge_l (checked under          *)
(* SpecPair).                                                              *)
(***************************************************************************)
\* the elements of seq at the positions P, in their order
RECURSIVE Pick(_, _, _)
Pick(seq, P, i) ==
    IF i > Len(seq) THEN <<>>
    ELSE IF i \in P THEN <<seq[i]>> \o Pick(seq, P, i + 1)
    ELSE Pick(seq, P, i + 1)

\* the subsequences of seq
Subsequences(seq) == {Pick(seq, P, 1) : P \in SUBSET DOMAIN seq}

\* the length of a longest common subsequence of a and b
LongestCommon(a, b) ==
    LET common == Subsequences(a) \cap Subsequences(b)
    IN  CHOOSE l \in 0..Len(a) :
           /\ \E c \in common : Len(c) = l
           /\ \A c \in common : Len(c) <= l

\* 2pr / (p + r), 0 when p + r = 0
HarmonicMean(p, r) ==
    IF FEq(FAdd(p, r), FZero) THEN FZero
    ELSE FDiv(FMul(Frac(2, 1), FMul(p, r)), FAdd(p, r))

\* C23: for token sequences of lengths m (reference) and n (candidate) the
\* table of calculate_rouge_l ends with cell(m,n) equal to the length of a
\* longest common subsequence, and the result is the harmonic mean of
\* precision = LCS/n and recall = LCS/m, or 0.0 when either sequence is
\* empty or precision + recall = 0.
C23_TableEndsWithLcsAndHarmonicMean ==
    pc = "pair_done" =>
        LET ref  == tokenize(text1)
            cand == tokenize(text2)
            m    == Len(ref)
            n    == Len(cand)
            lcs  == LongestCommon(ref, cand)
        IN  /\ lcs_table(ref, cand)[m, n] = lcs
            /\ IF m = 0 \/ n = 0 THEN FEq(rouge, FZero)
               ELSE FEq(rouge, HarmonicMean(Frac(lcs, n), Frac(lcs, m)))

\* C23 witness: two token sequences of three tokens whose longest common
\* subsequence has two tokens, the last tokens differing.
C23_Witness ==
    /\ pc = "pair_done"
    /\ Len(tokenize(text1)) = 3
    /\ Len(tokenize(text2)) = 3
    /\ tokenize(text1)[3] # tokenize(text2)[3]
    /\ LongestCommon(tokenize(text1), tokenize(text2)) = 2
    /\ FEq(rouge, Frac(2, 3))

(***************************************************************************)
(* The attribution specification: one call of                              *)
(* evaluate_answer_faithfulness on answers whose claims have up to five    *)
(* distinct tokens, against contexts that support a claim alone, in part,  *)
(* at the threshold or not at all.  The step is that of SpecFaith.         *)
(***************************************************************************)
\* The first sentence scores exactly 3/10 against the first context
\* (0.5 * 2/5 + 0.5 * 1/5); the second scores 5/12 against "paris" and 7/24
\* against "paris" joined with the third context.
AttributionSentences ==
    { <<"paris", " ", "france", " ", "city", " ", "population", " ", "capital", ".">>,
      <<"paris", " ", "france", " ", "city", "!">>,
      <<"the", " ", "the", " ", "the", ".">>,
      <<"million", " ", "million", "?">> }

AttributionContexts ==
    { <<"france", " ", "paris", " ", "paris", " ", "paris", " ", "paris">>,
      <<"paris">>,
      <<"population", " ", "population", " ", "population", " ", "population">>,
      <<>> }

AttributionAnswers == {JoinBlank(ss) : ss \in SeqsUpTo(AttributionSentences, MaxSentences)}

InitAttribution ==
    /\ pc = "faith_start"
    /\ answer \in AttributionAnswers
    /\ q_contexts \in SeqsUpTo(AttributionContexts, MaxContexts)
    /\ answer_eval = NoAnswerEval
    /\ IdleRetrieval
    /\ IdlePair
    /\ IdleRag
    /\ IdleSupport

SpecAttribution == InitAttribution /\ [][NextFaith]_vars

(***************************************************************************)
(* Claims about the contexts recorded as contributing (checked under       *)
(* SpecAttribution).                                                       *)
(***************************************************************************)
\* the score of claim j against the context at the 0-based position i alone
\* exceeds 0.3
ScoreExceeds(j, i) ==
    FGt(support_score(ExtractedClaims[j], q_contexts[i + 1]), Frac(3, 10))

ContextPositions == 0..(Len(q_contexts) - 1)

\* the contexts that score some claim above 0.3
Contributing == {i \in ContextPositions : \E j \in DOMAIN ExtractedClaims : ScoreExceeds(j, i)}

\* the first claim the context i contributes to
FirstContribution(i) ==
    CHOOSE j \in DOMAIN ExtractedClaims :
        ScoreExceeds(j, i) /\ \A j2 \in 1..(j - 1) : ~ScoreExceeds(j2, i)

\* context a first contributes before context b does: to an earlier claim,
\* or to the same claim from an earlier position
ContributesBefore(a, b) ==
    \/ FirstContribution(a) < FirstContribution(b)
    \/ FirstContribution(a) = FirstContribution(b) /\ a < b

\* C24: context_used holds exactly the contexts (by position) whose own
\* support score for at least one claim exceeds 0.3, each once, in order of
\* first contribution; a context is recorded on a claim's evaluation if and
\* only if its score for that claim exceeds 0.3.
C24_ContextUsedIsTheContributing ==
    pc = "faith_done" =>
        /\ \A j \in DOMAIN answer_eval.claims : \A i \in ContextPositions :
              i \in DOMAIN answer_eval.claims[j].context <=> ScoreExceeds(j, i)
        /\ SetOf(answer_eval.context_used) = Contributing
        /\ NoRepeat(answer_eval.context_used)
        /\ \A a, b \in DOMAIN answer_eval.context_used :
              a < b /\ SetOf(answer_eval.context_used) = Contributing =>
                 ContributesBefore(answer_eval.context_used[a], answer_eval.context_used[b])

(***************************************************************************)
(* Claims about the per-question details (checked under Spec).             *)
(***************************************************************************)
\* the value is None (a detail holds None or a score)
IsNone(value) == ToString(value) = ToString(NoValue)

\* the faithfulness scores the evaluation of the i-th question can give
OwnFaithfulness(i) == {e.faithfulness_score : e \in AnswerEvalsOf(questions, i)}

\* C25: in verbose mode, after any sequence of questions, the
\* answer_faithfulness of a question's detail is the question's own
\* faithfulness score when its answer was evaluated and None when it was not
\* (no answer or no context); it is never the score of an earlier question.
C25_DetailHoldsOwnFaithfulness ==
    verbose =>
        \A i \in DOMAIN question_details :
            LET recorded == question_details[i].answer_faithfulness
            IN  IF IsAveraged(questions, i)
                THEN ~IsNone(recorded) /\ recorded \in OwnFaithfulness(i)
                ELSE IsNone(recorded)

(***************************************************************************)
(* Claims about attribution and support (checked under SpecAttribution).   *)
(***************************************************************************)
\* the claims that have at least one token
TokenClaims == DOMAIN ExtractedClaims \ ZeroTokenClaims

\* C26: for every claim with at least one token and every ordered context
\* list, if some context alone scores the claim above 0.3 (and is recorded
\* as contributing), the claim is also supported against the combined body
\* of all contexts; equivalently, a claim listed in unsupported_claims never
\* carries a per-context attribution entry.
C26_AttributedClaimIsSupported ==
    pc = "faith_done" =>
        \A j \in TokenClaims :
            /\ DOMAIN answer_eval.claims[j].context # {} => answer_eval.claims[j].supported
            /\ ~answer_eval.claims[j].supported =>
                  \A i \in ContextPositions : i \notin DOMAIN answer_eval.claims[j].context

(***************************************************************************)
(* Claims about the contexts the two evaluations run over (checked under   *)
(* SpecAvg).                                                               *)
(***************************************************************************)
\* the contents of the contexts linked to the question processed last
LastLinked == ContentsAt(LinkedPositions(LastQuestionId))

\* the answer of the question processed last was evaluated (line 387)
LastAnswerEvaluated == answer # <<>> /\ q_contexts # <<>>

\* C27: for a question with more than K explicitly linked contexts, context
\* relevance is evaluated on the first K of them only and answer
\* faithfulness against all of them; only under fallback (or with at most K
\* linked contexts) do the two evaluations run over the same context list.
C27_RelevanceOnFirstKFaithfulnessOnAll ==
    qi >= 1 =>
        /\ Len(LastLinked) > k =>
              /\ context_evals \in ContextEvalLists(LastQuestion, SubSeq(LastLinked, 1, k), 0)
              /\ answer # <<>> =>
                    answer_eval \in evaluate_answer_faithfulness(answer, LastLinked,
                                                                 LastQuestionId)
        /\ Len(LastLinked) <= k =>
              /\ context_evals \in ContextEvalLists(LastQuestion, q_contexts, 0)
              /\ LastAnswerEvaluated =>
                    answer_eval \in evaluate_answer_faithfulness(answer, q_contexts,
                                                                 LastQuestionId)
        /\ Len(context_evals) = Len(q_contexts) <=> Len(LastLinked) <= k

\* C27 witness: two contexts linked to the question and K = 1: one context
\* evaluation, and an answer whose claim is attributed to the second context.
C27_Witness ==
    /\ qi >= 1
    /\ k = 1
    /\ Len(LastLinked) = 2
    /\ Len(context_evals) = 1
    /\ LastAnswerEvaluated
    /\ 1 \in SetOf(answer_eval.context_used)

(***************************************************************************)
(* Claims about the coverage under fallback (checked under Spec).          *)
(***************************************************************************)
\* C28: for every K >= 1 and every non-empty question list the coverage of
\* the report is 1.0 when the context pool is non-empty and 0.0 when it is
\* empty; no value in between is reachable, since every question without a
\* linked context falls back to the pool.
C28_CoverageIsOneOrZero ==
    (pc = "rag_done" /\ k >= 1 /\ questions # <<>>) =>
        /\ contexts # <<>> => report.coverage = 1000
        /\ contexts = <<>> => report.coverage = 0
        /\ report.retrieval_metrics.estimated_recall = report.coverage

\* C28 witness: two questions, neither with a linked context, over a pool
\* whose contexts are linked to other questions.
C28_Witness ==
    /\ pc = "rag_done"
    /\ k >= 1
    /\ Len(questions) = 2
    /\ \A i \in DOMAIN questions : ~HasLinkedContext(i)
    /\ contexts # <<>>
    /\ \A j \in DOMAIN contexts :
          "question_id" \in DOMAIN contexts[j] \/ "query_id" \in DOMAIN contexts[j]
    /\ report.coverage = 1000

(***************************************************************************)
(* Claims about the relevance classes (checked under Spec).                *)
(***************************************************************************)
\* the number of contexts the low_relevance issues of the list name
RECURSIVE LowRelevanceListed(_)
LowRelevanceListed(iss) ==
    IF iss = <<>> THEN 0
    ELSE (IF Head(iss).type = "low_relevance" THEN Len(Head(iss).contexts) ELSE 0)
         + LowRelevanceListed(Tail(iss))

\* the number of evaluated contexts counted as high-relevance (line 424)
HighRelevanceCounted == Len(SelectSeq(all_context_scores, IsHighRelevance))

\* C29: every evaluated context is classified exactly once by the
\* aggregator, counted as high-relevance in the proxy precision_at_k or
\* listed in a low_relevance issue (before the cap of 20 issues), so the
\* proxy precision_at_k is 1 - (evaluated contexts flagged low relevance) /
\* (evaluated contexts).
C29_EveryContextIsHighOrLow ==
    (pc = "rag_done" /\ all_context_scores # <<>>) =>
        LET evaluated == Len(all_context_scores)
            low       == LowRelevanceListed(issues)
        IN  /\ HighRelevanceCounted + low = evaluated
            /\ report.retrieval_metrics.precision_at_k = Round3(evaluated - low, evaluated)

(***************************************************************************)
(* The key-term specification: one call of evaluate_context_relevance on   *)
(* a question of up to two words and a context of up to MaxFiller distinct *)
(* filler words with one more word before or after them.                   *)
(***************************************************************************)
TermWords == {"paris", "france", "city"}

\* the first n filler words
Fillers(n) == [i \in 1..n |-> <<FillerWords[i]>>]

FillerCounts == {n \in 0..MaxFiller : n <= 1 \/ n >= MaxFiller - 2}

TermContexts ==
    {JoinBlank(Fillers(n)) : n \in FillerCounts}
    \cup {JoinBlank(Fillers(n) \o << <<w>> >>) : n \in FillerCounts, w \in TermWords}
    \cup {JoinBlank(<< <<w>> >> \o Fillers(n)) : n \in FillerCounts, w \in TermWords}

InitTerms ==
    /\ pc = "relevance_start"
    /\ text1 \in TextsOver(TermWords, 2)
    /\ text2 \in TermContexts
    /\ overlap = FZero
    /\ rouge = FZero
    /\ IdleRetrieval
    /\ IdleFaith
    /\ IdleSupport
    /\ IdleRag

\* evaluate_context_relevance(text1, text2, "ctx_0"); the ContextEvaluation
\* returned is kept as the one element of context_evals
EvaluateContextRelevance ==
    /\ pc = "relevance_start"
    /\ \E e \in evaluate_context_relevance(text1, text2, CtxId(0)) :
          context_evals' = <<e>>
    /\ pc' = "relevance_done"
    /\ UNCHANGED <<text1, text2, overlap, rouge, retrievalVars, faithVars, supportVars,
                   questions, contexts, verbose, qi, all_context_scores,
                   all_faithfulness_scores, all_groundedness_scores, issues,
                   question_details, questions_with_context, report>>

NextTerms == EvaluateContextRelevance

SpecTerms == InitTerms /\ [][NextTerms]_vars

(***************************************************************************)
(* Claims about the reported terms (checked under SpecTerms).              *)
(***************************************************************************)
\* C30: for every (question, context) pair, every term reported in
\* missing_terms does not occur among the context's tokens and every term
\* reported in key_terms_covered does, whatever the number of distinct
\* tokens of the context (its signature is its 30 most frequent terms, the
\* question's its 15 most frequent).
C30_MissingTermsAreAbsentFromContext ==
    pc = "relevance_done" =>
        LET e              == context_evals[1]
            context_tokens == SetOf(tokenize(text2))
        IN  /\ \A i \in DOMAIN e.missing_terms : e.missing_terms[i] \notin context_tokens
            /\ \A i \in DOMAIN e.key_terms_covered : e.key_terms_covered[i] \in context_tokens

====
